---- MODULE Spec2Model ----
(***************************************************************************)
(* Knosi API: the ingestion pipeline (upload_document / delete_document   *)
(* of server/api/main.py over the documents and chunks tables), the text  *)
(* chunker (chunk_text) and the progress registry (utils/progress.py)     *)
(* with the ingestion jobs that publish to it.                            *)
(*                                                                         *)
(* Strings that the code takes apart (file names, texts, payloads) are    *)
(* sequences: a text is a sequence of one-character strings, a payload a  *)
(* sequence of byte values.                                                *)
(***************************************************************************)
EXTENDS Integers, Sequences, FiniteSets, TLC

\* ------------------------------------------------------------------------
\* Bounds of the model
\* ------------------------------------------------------------------------
\* concurrent request slots of the server
MaxProcs == 2
\* requests begun in one behaviour
MaxReqs == 2
\* CHUNK_SIZE / CHUNK_OVERLAP the server instance is run with (environment
\* variables, main.py:29-30); small so that short texts give several chunks
CHUNK_SIZE == 4
CHUNK_OVERLAP == 1
\* arguments of the chunk_text calls explored on their own
MaxTextLen == 5
MaxChunkSize == 7
MaxOverlap == 7
\* longest run of letters before and after the break of a longer text
MaxRun == 4
\* loop iterations followed in one chunk_text call
MaxIters == 8
\* ingestion jobs that report progress, and subscriber channels
MaxJobs == 1
MaxSubs == 1
\* calls of open / publish / close made on the registry on its own, tasks
\* that publish at the same time, and the size of a bounded channel
MaxHubOps == 2
MaxPubs == 1
QueueMax == 1
\* the pages of a PDF, PDF_BATCH_SIZE the server is run with (environment
\* variable, core/config.py:42), the clock ticks of a second, the last
\* tick followed, and the tasks that call the rate limiter at the same time
MaxPages == 5
PDF_BATCH_SIZE == 2
TicksPerSecond == 2
MaxTime == 3
MaxCallers == 3
\* the largest limit a search is called with
MaxLimit == 2

\* bytes over the ceiling an image or a recompressed image may have
MaxExcess == 2

\* filesystem operations on the watched path
MaxEvents == 3

\* seconds the sync client is followed for
MaxClock == 3

\* distinct contents the watched file takes
MaxContents == 2

\* ------------------------------------------------------------------------
\* Program constants
\* ------------------------------------------------------------------------
MAX_FILE_SIZE_MB == 100
PDF_BATCHES_PER_MINUTE == 60

Procs == 1..MaxProcs

\* ------------------------------------------------------------------------
\* Python string primitives on sequences
\* ------------------------------------------------------------------------
Min(a, b) == IF a < b THEN a ELSE b
Max(a, b) == IF a > b THEN a ELSE b

\* a slice index as Python normalises it: negative counts from the end,
\* then clamped to 0..len
SliceIndex(i, len) ==
  IF i < 0 THEN Max(i + len, 0) ELSE Min(i, len)

\* s[a:b] (0-based, end exclusive)
Slice(s, a, b) ==
  LET lo == SliceIndex(a, Len(s))
      hi == SliceIndex(b, Len(s))
  IN IF lo >= hi THEN <<>> ELSE SubSeq(s, lo + 1, hi)

\* sub occurs in s at 0-based position i
OccursAt(s, sub, i) ==
  /\ i >= 0
  /\ i + Len(sub) <= Len(s)
  /\ \A k \in 1..Len(sub) : s[i + k] = sub[k]

\* s.rfind(sub, a, b): highest i with s[i:i+len(sub)] = sub inside s[a:b], or -1
RFind(s, sub, a, b) ==
  LET lo == SliceIndex(a, Len(s))
      hi == SliceIndex(b, Len(s))
      hits == {i \in lo..(hi - Len(sub)) : OccursAt(s, sub, i)}
  IN IF hits = {} THEN -1 ELSE CHOOSE i \in hits : \A j \in hits : j <= i

\* the characters str.strip() removes among those the model uses
Whitespace == {" ", "\n", "\t"}

\* s.strip()
Strip(s) ==
  LET keep == {i \in 1..Len(s) : s[i] \notin Whitespace}
  IN IF keep = {} THEN <<>>
     ELSE SubSeq(s, CHOOSE i \in keep : \A j \in keep : i <= j,
                    CHOOSE i \in keep : \A j \in keep : j <= i)

\* c.lower() for the letters the model's file names use
LowerChar(c) ==
  CASE c = "D" -> "d"
    [] c = "E" -> "e"
    [] c = "F" -> "f"
    [] c = "M" -> "m"
    [] c = "P" -> "p"
    [] c = "X" -> "x"
    [] OTHER -> c

Lower(s) == [k \in 1..Len(s) |-> LowerChar(s[k])]

\* Path(filename).name: the part after the last "/"
PathName(f) ==
  LET i == RFind(f, <<"/">>, 0, Len(f))
  IN Slice(f, i + 1, Len(f))

\* Path(filename).suffix: from the last "." of the name, unless the dot is
\* the first or the last character of the name
PathSuffix(f) ==
  LET name == PathName(f)
      i == RFind(name, <<".">>, 0, Len(name))
  IN IF 0 < i /\ i < Len(name) - 1 THEN Slice(name, i, Len(name)) ELSE <<>>

\* ------------------------------------------------------------------------
\* chunk_text (main.py:172-205, the same text as utils/chunking.py:8-51)
\* ------------------------------------------------------------------------
\* the sentence separators in the order the code tries them
SentenceSeps == << <<".", " ">>, <<".", "\n">>, <<"?", " ">>, <<"!", "\n">>, <<"!", " ">> >>

\* the first separator (in list order) whose last occurrence in
\* text[start:end] lies past the midpoint; 0 if none
FirstSepPastMid(text, chunk_size, start, end) ==
  LET ok == {k \in 1..Len(SentenceSeps) :
               RFind(text, SentenceSeps[k], start, end) > start + (chunk_size \div 2)}
  IN IF ok = {} THEN 0 ELSE CHOOSE k \in ok : \A j \in ok : k <= j

\* the cut position of the iteration that begins at start
ChunkEnd(text, chunk_size, start) ==
  LET end == start + chunk_size
      para_break == RFind(text, <<"\n", "\n">>, start, end)
      k == FirstSepPastMid(text, chunk_size, start, end)
  IN IF end < Len(text)
     THEN IF para_break > start + (chunk_size \div 2)
          THEN para_break + 2
          ELSE IF k # 0
               THEN RFind(text, SentenceSeps[k], start, end) + Len(SentenceSeps[k])
               ELSE end
     ELSE end

\* appends the chunk also when it strips to nothing
ChunkIterMutKeepEmpty(text, chunk_size, overlap, start, chunks) ==
  LET end == ChunkEnd(text, chunk_size, start)
      chunk == Strip(Slice(text, start, end))
  IN [chunks |-> Append(chunks, chunk),
      start  |-> end - overlap,
      end    |-> end]

\* steps the cursor forward by the overlap instead of back
ChunkIterMutGap(text, chunk_size, overlap, start, chunks) ==
  LET end == ChunkEnd(text, chunk_size, start)
      chunk == Strip(Slice(text, start, end))
  IN [chunks |-> IF chunk # <<>> THEN Append(chunks, chunk) ELSE chunks,
      start  |-> end + overlap,
      end    |-> end]

\* one iteration of the while loop: the chunk list and the cursor after it
ChunkIter(text, chunk_size, overlap, start, chunks) ==
  LET end == ChunkEnd(text, chunk_size, start)
      chunk == Strip(Slice(text, start, end))
  IN [chunks |-> IF chunk # <<>> THEN Append(chunks, chunk) ELSE chunks,
      start  |-> end - overlap,
      end    |-> end]

\* len(text) < chunk_size: a text of exactly chunk_size goes to the loop
ChunkWholeMut(text, chunk_size) == text = <<>> \/ Len(text) < chunk_size

\* the early return of line 20-21
ChunkWhole(text, chunk_size) == text = <<>> \/ Len(text) <= chunk_size

ChunkWholeResult(text) == IF text # <<>> THEN <<text>> ELSE <<>>

RECURSIVE ChunkLoop(_, _, _, _, _)
ChunkLoop(text, chunk_size, overlap, start, chunks) ==
  IF ~(start < Len(text)) THEN chunks
  ELSE LET it == ChunkIter(text, chunk_size, overlap, start, chunks)
       IN IF it.start >= Len(text) THEN it.chunks
          ELSE ChunkLoop(text, chunk_size, overlap, it.start, it.chunks)

\* chunk_text(text, chunk_size, overlap) as a value, for callers that run
\* it with an overlap below the chunk size
chunk_text(text, chunk_size, overlap) ==
  IF ChunkWhole(text, chunk_size) THEN ChunkWholeResult(text)
  ELSE ChunkLoop(text, chunk_size, overlap, 0, <<>>)

\* ------------------------------------------------------------------------
\* Payloads, file names, hashing, extraction, embedding (main.py)
\* ------------------------------------------------------------------------
\* SUPPORTED_EXTENSIONS, main.py:35
SUPPORTED_EXTENSIONS ==
  { <<".", "p", "d", "f">>, <<".", "m", "d">>, <<".", "t", "x", "t">>,
    <<".", "o", "r", "g">>, <<".", "r", "s", "t">>, <<".", "h", "t", "m", "l">>,
    <<".", "h", "t", "m">>, <<".", "d", "o", "c", "x">> }

\* the extensions extract_text decodes as plain text
TextExtensions ==
  { <<".", "m", "d">>, <<".", "t", "x", "t">>, <<".", "o", "r", "g">>,
    <<".", "r", "s", "t">>, <<".", "h", "t", "m", "l">>, <<".", "h", "t", "m">> }

\* file names (identity keys) the requests use: a.md, b.PDF, x.exe, rc
Filenames ==
  { <<"a", ".", "m", "d">>, <<"b", ".", "P", "D", "F">>,
    <<"x", ".", "e", "x", "e">>, <<"r", "c">> }

\* one byte more than the upload ceiling
OversizeLen == MAX_FILE_SIZE_MB * 1024 * 1024 + 1

\* an uploaded body: its bytes and len(content); the oversize body is
\* represented by its first byte and its length
Payloads ==
  { [bytes |-> <<97, 98>>, size |-> 2],
    [bytes |-> <<97, 98, 99, 32, 100, 101>>, size |-> 6],
    [bytes |-> <<32>>, size |-> 1],
    [bytes |-> <<97>>, size |-> OversizeLen] }

\* the character of a byte value below 256 (latin-1 code point)
Chr(b) ==
  CASE b = 10 -> "\n"
    [] b = 32 -> " "
    [] b = 46 -> "."
    [] b = 97 -> "a"
    [] b = 98 -> "b"
    [] b = 99 -> "c"
    [] b = 100 -> "d"
    [] b = 101 -> "e"
    [] OTHER -> "?"

\* content.decode('utf-8') succeeds on the model's bytes iff all are ASCII:
\* the only other byte value, 233, is a lead byte with no continuation
Utf8Valid(bytes) == \A i \in 1..Len(bytes) : bytes[i] < 128

\* the encoding loop of extract_text: utf-8, then latin-1 (which never fails)
Decode(bytes) ==
  IF Utf8Valid(bytes) THEN [i \in 1..Len(bytes) |-> Chr(bytes[i])]
  ELSE [i \in 1..Len(bytes) |-> IF bytes[i] = 233 THEN "E9" ELSE Chr(bytes[i])]

RECURSIVE Sha(_, _)
Sha(bytes, h) ==
  IF bytes = <<>> THEN h ELSE Sha(Tail(bytes), (h * 31 + Head(bytes)) % 65521)

\* compute_file_hash: a digest of the bytes (a small polynomial hash stands
\* for SHA-256; it separates the payloads of the model)
compute_file_hash(content) == Sha(content.bytes, 7)

\* texts the external services (Claude for .pdf, the zip/XML parse for
\* .docx) can return
ServiceTexts == { <<"c", "d">>, <<" ">> }

\* outcome of an await extract_text(content, filename)
ExtractOk(t) == [ok |-> TRUE, text |-> t, code |-> 200, detail |-> ""]
ExtractErr(c, d) == [ok |-> FALSE, text |-> <<>>, code |-> c, detail |-> d]

\* extract_text: dispatch on the lowercased suffix
ExtractOutcomes(content, filename) ==
  LET ext == Lower(PathSuffix(filename))
  IN IF ext = <<".", "p", "d", "f">>
     THEN {ExtractOk(t) : t \in ServiceTexts}
            \cup {ExtractErr(400, "Claude API error"),
                  ExtractErr(500, "PDF extraction failed")}
     ELSE IF ext = <<".", "d", "o", "c", "x">>
     THEN {ExtractOk(t) : t \in ServiceTexts \cup {<<>>}}
            \cup {ExtractErr(500, "BadZipFile")}
     ELSE IF ext \in TextExtensions
     THEN {ExtractOk(Decode(content.bytes))}
     ELSE {ExtractErr(400, "Unsupported file type")}

\* the vector the embedding model gives a text
EmbedVec(t) == <<"vec", t>>

\* get_embeddings(texts), when encode() does not raise
get_embeddings(texts) ==
  IF texts = <<>> THEN <<>> ELSE [i \in 1..Len(texts) |-> EmbedVec(texts[i])]

\* ------------------------------------------------------------------------
\* State
\* ------------------------------------------------------------------------
VARIABLES
  docs,       \* committed rows of table documents
  chunkRows,  \* committed rows of table chunks
  docSeq,     \* last value of the documents.id sequence
  chunkSeq,   \* last value of the chunks.id sequence
  req,        \* per request slot: the handler's locals, position and session
  nreq,       \* requests begun so far
  ck,         \* one call of chunk_text: arguments, loop cursor, chunk list
  upload_progress,  \* utils/progress.py: upload_id -> entry (or NoEntry)
  queues,     \* content of each subscriber's asyncio.Queue
  job,        \* per upload_id: the ingestion that reports under it
  qmax,       \* maxsize each subscriber's queue was created with (0: no limit, -1: none given)
  attach,     \* per registered subscriber: the terminal status it read when it attached
  pub,        \* per publishing task: its position inside send_progress
  hop,        \* the last call made on the registry, and how many were made
  extr,       \* the extraction task: its position inside extract_text_from_pdf
  thr,        \* per task calling rate_limit_batch: its position inside it
  svc,        \* services/extraction.py globals and the configuration read
  now,        \* time.time(), in ticks
  qry,        \* the task inside services/chat.py or get_embeddings: locals, position
  emb,        \* services/embeddings.py globals
  img,        \* the task inside extract_text_from_image: locals, position
  syn         \* client/knosi-sync.py: the handler's fields, both threads, the vault, the server's log

vars == <<docs, chunkRows, docSeq, chunkSeq, req, nreq, ck, upload_progress, queues, job,
          qmax, attach, pub, hop, extr, thr, svc, now, qry, emb, img, syn>>

\* the store and its requests
storeVars == <<docs, chunkRows, docSeq, chunkSeq, req, nreq>>

\* the progress registry, its subscribers and the jobs that publish
hubVars == <<upload_progress, queues, job>>

\* the tasks inside send_progress and the callers of the registry
pubVars == <<qmax, attach, pub, hop>>

\* the PDF extractions, the rate limiter and the clock
extVars == <<extr, thr, svc, now>>

\* the search, chat and embedding calls
qryVars == <<qry, emb>>

\* the image extraction and the sync client
cliVars == <<img, syn>>

\* what the request handlers leave alone
nonStoreVars == <<ck, hubVars, pubVars, extVars, qryVars, cliVars>>

\* what a call of chunk_text leaves alone
nonChunkVars == <<storeVars, hubVars, pubVars, extVars, qryVars, cliVars>>

\* what the ingestion jobs and their subscribers leave alone
nonHubVars == <<storeVars, ck, pubVars, extVars, qryVars, cliVars>>

\* what the calls made on the registry on its own leave alone
nonPubVars == <<storeVars, ck, job, extVars, qryVars, cliVars>>

\* what the PDF extractions leave alone
nonExtVars == <<storeVars, ck, job, pubVars, qryVars, cliVars>>

\* existing_doc / doc = None
NoDoc == [id |-> 0, filename |-> <<>>, file_hash |-> 0, file_size |-> 0, chunk_count |-> 0]

NoPayload == [bytes |-> <<>>, size |-> 0]

NoResult == [code |-> 0, status |-> "", chunks |-> 0, detail |-> ""]

\* a slot with no request
IdleReq ==
  [kind |-> "none", pc |-> "idle", filename |-> <<>>, content |-> NoPayload,
   file_size |-> 0, file_hash |-> 0, existing_doc |-> NoDoc,
   text |-> <<>>, chunks |-> <<>>, embeddings |-> <<>>, doc |-> NoDoc,
   txDel |-> {}, txIns |-> {}, result |-> NoResult, log |-> <<>>]

\* HTTPException / unhandled exception: the response, and the session's
\* open transaction is rolled back when the session closes
Raise(r, code, detail) ==
  [r EXCEPT !.pc = "done", !.txDel = {}, !.txIns = {},
            !.result = [code |-> code, status |-> "error", chunks |-> 0, detail |-> detail]]

\* a 200 response
Return(r, status, n) ==
  [r EXCEPT !.pc = "done", !.txDel = {}, !.txIns = {},
            !.result = [code |-> 200, status |-> status, chunks |-> n, detail |-> ""]]

Logged(r, what) == [r EXCEPT !.log = Append(@, what)]

\* select(Document).where(Document.filename == filename): committed rows
DocsNamed(filename) == {d \in docs : d.filename = filename}

\* no unique index on documents.filename
UniqueViolationMut(filename) == FALSE

\* the unique index on documents.filename (models/document.py:18,
\* main.py:46): a committed row with this filename rejects the INSERT
UniqueViolation(filename) == DocsNamed(filename) # {}

\* another session holds an uncommitted INSERT of this filename: the
\* INSERT waits for that transaction to end
UniqueWait(p, filename) ==
  \E q \in Procs \ {p} : \E d \in req[q].txIns : d.filename = filename

\* another session holds an uncommitted DELETE of one of these rows: the
\* DELETE waits for that transaction to end
RowLockWait(p, rows) ==
  \E q \in Procs \ {p} : req[q].txDel \cap rows # {}

\* no call of chunk_text under way
CkIdle ==
  [pc |-> "idle", text |-> <<>>, chunk_size |-> 0, overlap |-> 0,
   start |-> 0, end |-> 0, chunks |-> <<>>, spans |-> <<>>, iters |-> 0]

\* the server after startup: empty tables, no request
StoreInit ==
  /\ docs = {}
  /\ chunkRows = {}
  /\ docSeq = 0
  /\ chunkSeq = 0
  /\ req = [p \in Procs |-> IdleReq]
  /\ nreq = 0

JobIds == 1..MaxJobs

Chans == 1..MaxSubs

\* the identifiers the registry is called with and the channels of its
\* subscribers: those of the jobs, and two of each at least
HubIds == JobIds \cup {1, 2}

HubChans == Chans \cup {1, 2}

Pubs == 1..MaxPubs

\* upload_id not in upload_progress
NoEntry == [status |-> <<>>, filename |-> <<>>, queues |-> <<>>, present |-> FALSE]

NoOutcome == [kind |-> "none", code |-> 0, status |-> ""]

\* no ingestion under this upload_id yet
IdleJob == [pc |-> "idle", filename |-> <<>>, outcome |-> NoOutcome]

\* a task that is not inside send_progress; inside it: the arguments, the
\* channel list as it was at the call, the index of the loop, the queue
\* and the item of a suspended put, and the entry object the task holds
\* once the registry has dropped it; got lists the channels its puts have
\* completed on, stay the channels registered since the call
IdlePub ==
  [pc |-> "idle", upload_id |-> 0, status |-> <<>>, at |-> <<>>, i |-> 0, chan |-> 0,
   item |-> [status |-> <<>>, filename |-> <<>>],
   det |-> FALSE, own |-> [filename |-> <<>>, queues |-> <<>>],
   got |-> <<>>, stay |-> {}]

NoCall == [op |-> "none", id |-> 0, arg |-> <<>>, n |-> 0]

\* empty registry, no subscriber, no job, no call
HubInit ==
  /\ upload_progress = [j \in HubIds |-> NoEntry]
  /\ queues = [c \in HubChans |-> <<>>]
  /\ job = [j \in JobIds |-> IdleJob]
  /\ qmax = [c \in HubChans |-> -1]
  /\ attach = [c \in HubChans |-> <<>>]
  /\ pub = [p \in Pubs |-> IdlePub]
  /\ hop = NoCall

Callers == 1..MaxCallers

\* last_batch_time = None, PDF_MAX_BATCHES = None
None == -1

NoText == [kind |-> "none", code |-> 0, msg |-> "", first |-> 0, last |-> 0,
           wraps |-> 0, text |-> <<>>]

\* no extraction in this task
IdleExt ==
  [pc |-> "idle", pages |-> 0, size_mb |-> 0, upload_id |-> 0,
   batches_to_process |-> 0, batch_num |-> 0, extracted_parts |-> <<>>,
   calls |-> <<>>, wake |-> 0, failure |-> "none", result |-> NoText]

\* the configurations the server is started with: PDF_MAX_BATCHES unset,
\* 0, 1 or 2 with a Claude client, and no Claude client
Configs ==
  {[claude_client |-> TRUE, last_batch_time |-> None, PDF_MAX_BATCHES |-> m] :
     m \in {None, 0, 1, 2}}
  \cup {[claude_client |-> FALSE, last_batch_time |-> None, PDF_MAX_BATCHES |-> None]}

\* the server after startup with a Claude client, no batch cap and the
\* limiter unused
ExtInit ==
  /\ extr = IdleExt
  /\ thr = [c \in Callers |-> [pc |-> "out", wake |-> 0]]
  /\ svc = [claude_client |-> TRUE, last_batch_time |-> None, PDF_MAX_BATCHES |-> None]
  /\ now = 0

\* what a search, chat or embedding call returns or raises
NoAnswer == [kind |-> "none", code |-> 0, detail |-> "", items |-> <<>>,
             response |-> "", sources |-> <<>>]

\* no request sent to the generation service
NoRequest == [context |-> <<>>, question |-> <<>>]

\* no call of services/chat.py or get_embeddings under way
IdleQry ==
  [pc |-> "idle", op |-> "none", query |-> <<>>, texts |-> <<>>, limit |-> 0,
   include_sources |-> FALSE, log |-> <<>>, query_embedding |-> <<>>,
   chunks |-> <<>>, request |-> NoRequest, result |-> NoAnswer]

\* the server after init_embedding_model()
QryInit ==
  /\ qry = IdleQry
  /\ emb = [client |-> TRUE]

\* no call of extract_text_from_image under way: len(content), whether
\* PIL can be imported, the loop variables, the saves made by each loop,
\* the length of the image handed to the vision service and the outcome
IdleImg ==
  [pc |-> "idle", given |-> 0, content |-> 0, pillow |-> TRUE, media_type |-> "image/png",
   quality |-> 0, scale |-> [tenths |-> 0, above |-> FALSE], qsaves |-> 0, ssaves |-> 0,
   sent |-> None, result |-> [kind |-> "none", code |-> 0, detail |-> ""]]

\* no entry of pending_events for the path; n numbers the events recorded
NoEvent == [timestamp |-> None, event_type |-> "none", n |-> 0]

\* the sync client as constructed, nothing on disk: the clock, the file
\* (None: absent), the watcher's undelivered events and its callback, the
\* handler's pending_events and file_hashes entries for the path, the main
\* loop's position and locals; then what is kept for the properties: the
\* event last recorded, the requests issued, the content of the last
\* upload answered 200, whether _delete_file ran since, the last skip
IdleSyn ==
  [clock |-> 0, disk |-> None, fsq |-> <<>>, nfs |-> 0,
   wpc |-> "idle", wstamp |-> NoEvent,
   pending_events |-> NoEvent, file_hashes |-> None,
   pc |-> "sleep", now |-> 0, snapshot |-> <<>>, to_process |-> <<>>,
   new_hash |-> None, content |-> None,
   recorded |-> NoEvent, nrec |-> 0, log |-> <<>>,
   last_ok |-> None, deleted_since |-> FALSE,
   skipped |-> [n |-> 0, content |-> None, last_ok |-> None, deleted_since |-> FALSE]]

CliInit ==
  /\ img = IdleImg
  /\ syn = IdleSyn

Init ==
  /\ StoreInit
  /\ ck = CkIdle
  /\ HubInit
  /\ ExtInit
  /\ QryInit
  /\ CliInit

\* ------------------------------------------------------------------------
\* Requests
\* ------------------------------------------------------------------------
\* POST /api/upload arrives
BeginUpload(p) ==
  /\ req[p].pc \in {"idle", "done"}
  /\ nreq < MaxReqs
  /\ \E f \in Filenames :
       req' = [req EXCEPT ![p] =
                 [IdleReq EXCEPT !.kind = "upload", !.pc = "validate", !.filename = f]]
  /\ nreq' = nreq + 1
  /\ UNCHANGED <<docs, chunkRows, docSeq, chunkSeq, nonStoreVars>>

\* DELETE /api/documents/{filename} arrives
BeginDelete(p) ==
  /\ req[p].pc \in {"idle", "done"}
  /\ nreq < MaxReqs
  /\ \E f \in Filenames :
       req' = [req EXCEPT ![p] =
                 [IdleReq EXCEPT !.kind = "delete", !.pc = "dlookup", !.filename = f]]
  /\ nreq' = nreq + 1
  /\ UNCHANGED <<docs, chunkRows, docSeq, chunkSeq, nonStoreVars>>

\* the check left to extract_text: every extension passes here
ExtSupportedMut(ext) == TRUE

\* line 348: ext in SUPPORTED_EXTENSIONS
ExtSupported(ext) == ext \in SUPPORTED_EXTENSIONS

\* upload_document, lines 345-352: the extension check
Validate(p) ==
  LET r == req[p]
      ext == Lower(PathSuffix(r.filename))
  IN /\ r.pc = "validate"
     /\ req' = [req EXCEPT ![p] =
                  IF ~ExtSupported(ext)
                  THEN Raise(r, 400, "Unsupported file type")
                  ELSE [r EXCEPT !.pc = "read"]]
     /\ UNCHANGED <<docs, chunkRows, docSeq, chunkSeq, nreq, nonStoreVars>>

\* lines 355-365: content = await file.read(), the size check,
\* compute_file_hash
ReadBody(p) ==
  /\ req[p].pc = "read"
  /\ \E content \in Payloads :
       LET r == [Logged(req[p], "read") EXCEPT !.content = content]
           file_size == content.size
       IN req' = [req EXCEPT ![p] =
                    IF file_size > MAX_FILE_SIZE_MB * 1024 * 1024
                    THEN Raise(r, 400, "File too large")
                    ELSE [Logged(r, "hash") EXCEPT
                            !.pc = "lookup", !.file_size = file_size,
                            !.file_hash = compute_file_hash(content)]]
  /\ UNCHANGED <<docs, chunkRows, docSeq, chunkSeq, nreq, nonStoreVars>>

\* compares the stored size, not the stored hash
AlreadyIndexedMut(existing_doc, file_hash) ==
  existing_doc # NoDoc /\ existing_doc.file_size = file_hash

\* line 371: existing_doc and existing_doc.file_hash == file_hash
AlreadyIndexed(existing_doc, file_hash) ==
  existing_doc # NoDoc /\ existing_doc.file_hash = file_hash

\* lines 366-372: the lookup by filename and the unchanged short-circuit
Lookup(p) ==
  LET found == DocsNamed(req[p].filename)
      existing_doc == IF found = {} THEN NoDoc ELSE CHOOSE d \in found : TRUE
      r == [Logged(req[p], "select") EXCEPT !.existing_doc = existing_doc]
  IN /\ req[p].pc = "lookup"
     /\ req' = [req EXCEPT ![p] =
                  IF Cardinality(found) > 1
                  THEN Raise(Logged(req[p], "select"), 500, "MultipleResultsFound")
                  ELSE IF AlreadyIndexed(existing_doc, r.file_hash)
                  THEN Return(r, "unchanged", 0)
                  ELSE [r EXCEPT !.pc = "extract"]]
     /\ UNCHANGED <<docs, chunkRows, docSeq, chunkSeq, nreq, nonStoreVars>>

\* the handler after extract_text returned text (lines 377-384): the blank
\* check, chunk_text, get_embeddings (embed_ok: encode() did not raise)
AfterExtract(r, text, embed_ok) ==
  LET chunks == chunk_text(text, CHUNK_SIZE, CHUNK_OVERLAP)
  IN IF Strip(text) = <<>>
     THEN Raise(r, 400, "Could not extract text from document")
     ELSE IF ~embed_ok
     THEN Raise(Logged(r, "embed"), 500, "embedding failed")
     ELSE [Logged(r, "embed") EXCEPT
             !.text = text, !.chunks = chunks,
             !.embeddings = get_embeddings(chunks),
             !.pc = IF r.existing_doc # NoDoc THEN "delchunks" ELSE "flush"]

\* the old Document and its Chunks are deleted before extraction begins
ExtractAndEmbedMut(p) ==
  LET r == Logged(req[p], "extract")
  IN /\ req[p].pc = "extract"
     /\ \E o \in ExtractOutcomes(r.content, r.filename), embed_ok \in BOOLEAN :
          req' = [req EXCEPT ![p] =
                    IF ~o.ok THEN Raise(r, o.code, o.detail)
                    ELSE AfterExtract(r, o.text, embed_ok)]
     /\ docs' = {d \in docs : d.id # r.existing_doc.id}
     /\ chunkRows' = {c \in chunkRows : c.document_id # r.existing_doc.id}
     /\ UNCHANGED <<docSeq, chunkSeq, nreq, nonStoreVars>>

\* lines 375-384: await extract_text, then the synchronous steps up to the
\* next await
ExtractAndEmbed(p) ==
  LET r == Logged(req[p], "extract")
  IN /\ req[p].pc = "extract"
     /\ \E o \in ExtractOutcomes(r.content, r.filename), embed_ok \in BOOLEAN :
          req' = [req EXCEPT ![p] =
                    IF ~o.ok THEN Raise(r, o.code, o.detail)
                    ELSE AfterExtract(r, o.text, embed_ok)]
     /\ UNCHANGED <<docs, chunkRows, docSeq, chunkSeq, nreq, nonStoreVars>>

\* filters on the chunk's own id instead of document_id
ChunksOfMut(id) == {c \in chunkRows : c.id = id}

\* the rows of delete(Chunk).where(Chunk.document_id == id)
ChunksOf(id) == {c \in chunkRows : c.document_id = id}

\* line 388: DELETE FROM chunks WHERE document_id = existing_doc.id, inside
\* the session's transaction
DeleteOldChunks(p) ==
  LET r == req[p]
      rows == ChunksOf(r.existing_doc.id)
  IN /\ r.pc = "delchunks"
     /\ ~RowLockWait(p, rows)
     /\ req' = [req EXCEPT ![p] =
                  [Logged(r, "delete_chunks") EXCEPT !.txDel = rows, !.pc = "delcommit"]]
     /\ UNCHANGED <<docs, chunkRows, docSeq, chunkSeq, nreq, nonStoreVars>>

\* lines 389-390: session.delete(existing_doc); commit: the DELETE of the
\* documents row is flushed and the transaction commits
CommitDeleteOld(p) ==
  LET r == req[p]
  IN /\ r.pc = "delcommit"
     /\ docs' = {d \in docs : d.id # r.existing_doc.id}
     /\ chunkRows' = chunkRows \ r.txDel
     /\ req' = [req EXCEPT ![p] =
                  [Logged(r, "commit_delete") EXCEPT !.txDel = {}, !.pc = "flush"]]
     /\ UNCHANGED <<docSeq, chunkSeq, nreq, nonStoreVars>>

\* lines 393-398: the new Document
NewDocument(r, id) ==
  [id |-> id, filename |-> r.filename, file_hash |-> r.file_hash,
   file_size |-> r.file_size, chunk_count |-> Len(r.chunks)]

\* lines 393-400: session.add(doc); flush: INSERT INTO documents. The id
\* comes from the sequence (consumed also when the INSERT fails)
FlushDocument(p) ==
  LET r == req[p]
      doc == NewDocument(r, docSeq + 1)
  IN /\ r.pc = "flush"
     /\ ~UniqueWait(p, r.filename)
     /\ docSeq' = docSeq + 1
     /\ req' = [req EXCEPT ![p] =
                  IF UniqueViolation(r.filename)
                  THEN Raise(Logged(r, "insert_doc"), 500, "IntegrityError")
                  ELSE [Logged(r, "insert_doc") EXCEPT
                          !.doc = doc, !.txIns = {doc}, !.pc = "commit"]]
     /\ UNCHANGED <<docs, chunkRows, chunkSeq, nreq, nonStoreVars>>

\* the vectors are paired with the chunks in reverse order
NewChunksMutSwap(r, firstId) ==
  { [id |-> firstId + i, document_id |-> r.doc.id, filename |-> r.filename,
     chunk_index |-> i, content |-> r.chunks[i + 1],
     embedding |-> r.embeddings[Len(r.embeddings) - i]]
    : i \in 0..(Min(Len(r.chunks), Len(r.embeddings)) - 1) }

\* enumerate(..., 1): ordinals from 1
NewChunksMut(r, firstId) ==
  { [id |-> firstId + i, document_id |-> r.doc.id, filename |-> r.filename,
     chunk_index |-> i + 1, content |-> r.chunks[i + 1], embedding |-> r.embeddings[i + 1]]
    : i \in 0..(Min(Len(r.chunks), Len(r.embeddings)) - 1) }

\* lines 403-411: one Chunk per pair of zip(chunks, embeddings)
NewChunks(r, firstId) ==
  { [id |-> firstId + i, document_id |-> r.doc.id, filename |-> r.filename,
     chunk_index |-> i, content |-> r.chunks[i + 1], embedding |-> r.embeddings[i + 1]]
    : i \in 0..(Min(Len(r.chunks), Len(r.embeddings)) - 1) }

\* the two statuses swapped
UploadStatusMut(existing_doc) == IF existing_doc # NoDoc THEN "created" ELSE "updated"

\* line 419
UploadStatus(existing_doc) == IF existing_doc # NoDoc THEN "updated" ELSE "created"

\* lines 402-420: the chunks are added, commit flushes their INSERTs and
\* commits the transaction, the response is returned
CommitDocument(p) ==
  LET r == req[p]
      rows == NewChunks(r, chunkSeq + 1)
  IN /\ r.pc = "commit"
     /\ docs' = docs \cup r.txIns
     /\ chunkRows' = chunkRows \cup rows
     /\ chunkSeq' = chunkSeq + Cardinality(rows)
     /\ req' = [req EXCEPT ![p] =
                  Return(Logged(r, "commit"), UploadStatus(r.existing_doc), Len(r.chunks))]
     /\ UNCHANGED <<docSeq, nreq, nonStoreVars>>

\* delete_document, lines 430-436
DeleteLookup(p) ==
  LET r == Logged(req[p], "select")
      found == DocsNamed(r.filename)
      doc == IF found = {} THEN NoDoc ELSE CHOOSE d \in found : TRUE
  IN /\ req[p].pc = "dlookup"
     /\ req' = [req EXCEPT ![p] =
                  IF Cardinality(found) > 1
                  THEN Raise(r, 500, "MultipleResultsFound")
                  ELSE IF doc = NoDoc
                  THEN Raise(r, 404, "Document not found")
                  ELSE [r EXCEPT !.doc = doc, !.pc = "ddelchunks"]]
     /\ UNCHANGED <<docs, chunkRows, docSeq, chunkSeq, nreq, nonStoreVars>>

\* delete_document, line 438
DeleteChunks(p) ==
  LET r == req[p]
      rows == ChunksOf(r.doc.id)
  IN /\ r.pc = "ddelchunks"
     /\ ~RowLockWait(p, rows)
     /\ req' = [req EXCEPT ![p] =
                  [Logged(r, "delete_chunks") EXCEPT !.txDel = rows, !.pc = "dcommit"]]
     /\ UNCHANGED <<docs, chunkRows, docSeq, chunkSeq, nreq, nonStoreVars>>

\* the Document row is deleted and its Chunks are left in the table
DeleteCommitMut(p) ==
  LET r == req[p]
  IN /\ r.pc = "dcommit"
     /\ docs' = {d \in docs : d.id # r.doc.id}
     /\ chunkRows' = chunkRows
     /\ req' = [req EXCEPT ![p] = Return(Logged(r, "commit_delete"), "deleted", 0)]
     /\ UNCHANGED <<docSeq, chunkSeq, nreq, nonStoreVars>>

\* delete_document, lines 439-442
DeleteCommit(p) ==
  LET r == req[p]
  IN /\ r.pc = "dcommit"
     /\ docs' = {d \in docs : d.id # r.doc.id}
     /\ chunkRows' = chunkRows \ r.txDel
     /\ req' = [req EXCEPT ![p] = Return(Logged(r, "commit_delete"), "deleted", 0)]
     /\ UNCHANGED <<docSeq, chunkSeq, nreq, nonStoreVars>>

\* the positions at which a handler is suspended in a database call
DbAwait == {"lookup", "delchunks", "delcommit", "flush", "commit",
            "dlookup", "ddelchunks", "dcommit"}

\* the database call fails (connection lost, statement error, the worker
\* is killed): the exception ends the request with a 500 and the session's
\* open transaction is rolled back
DbFailure(p) ==
  /\ req[p].pc \in DbAwait
  /\ req' = [req EXCEPT ![p] = Raise(req[p], 500, "database error")]
  /\ UNCHANGED <<docs, chunkRows, docSeq, chunkSeq, nreq, nonStoreVars>>

Next ==
  \E p \in Procs :
    \/ BeginUpload(p)
    \/ BeginDelete(p)
    \/ Validate(p)
    \/ ReadBody(p)
    \/ Lookup(p)
    \/ ExtractAndEmbed(p)
    \/ DeleteOldChunks(p)
    \/ CommitDeleteOld(p)
    \/ FlushDocument(p)
    \/ CommitDocument(p)
    \/ DeleteLookup(p)
    \/ DeleteChunks(p)
    \/ DeleteCommit(p)
    \/ DbFailure(p)

Spec == Init /\ [][Next]_vars

\* ------------------------------------------------------------------------
\* Properties of upload_document / delete_document
\* ------------------------------------------------------------------------
\* the calls of a request that write to the store
WriteCalls == {"delete_chunks", "commit_delete", "insert_doc", "commit"}

Made(r, calls) == \E i \in 1..Len(r.log) : r.log[i] \in calls

\* this step is request p's handler moving on from position pc (and not
\* the database call failing under it)
HandlerStep(p, pc) ==
  /\ req[p].pc = pc
  /\ req'[p] # req[p]
  /\ req'[p].result.detail # "database error"

\* C1: an upload whose lookup finds a stored Document of its identity key
\* with the hash of its bytes returns 'unchanged' at once; a request that
\* returns 'unchanged' has made no extraction call, no embedding call and
\* no write, and the step that returns it leaves both tables as they were.
C1_UnchangedShortCircuit ==
  [][\A p \in Procs :
       /\ ( /\ HandlerStep(p, "lookup")
            /\ \E d \in docs : /\ d.filename = req[p].filename
                               /\ d.file_hash = compute_file_hash(req[p].content) )
          => ( /\ req'[p].pc = "done"
               /\ req'[p].result.code = 200
               /\ req'[p].result.status = "unchanged" )
       /\ ( req'[p].result.status = "unchanged" /\ req[p].result.status # "unchanged" )
          => ( /\ ~Made(req'[p], {"extract", "embed"} \cup WriteCalls)
               /\ docs' = docs
               /\ chunkRows' = chunkRows
               /\ docSeq' = docSeq
               /\ chunkSeq' = chunkSeq )
  ]_vars

C1_Witness ==
  \E p \in Procs :
    /\ req[p].pc = "done"
    /\ req[p].result.status = "unchanged"
    /\ \E d \in docs : /\ d.filename = req[p].filename
                       /\ d.file_hash = compute_file_hash(req[p].content)
                       /\ ChunksOf(d.id) # {}

\* C2: the step that completes a re-ingestion ('updated') leaves no Chunk of
\* the previous Document in the store, the key's Chunks are exactly the new
\* chunks with ordinals 0..n-1, and the key's Document carries the hash,
\* size and chunk count of the new bytes.
C2_ReingestReplaces ==
  [][\A p \in Procs :
       ( HandlerStep(p, "commit") /\ req'[p].result.status = "updated" )
       => LET r == req[p]
              n == Len(r.chunks)
              mine == {c \in chunkRows' : c.filename = r.filename}
          IN /\ \A c \in chunkRows' : c.document_id # r.existing_doc.id
             /\ r.existing_doc \notin docs'
             /\ Cardinality(mine) = n
             /\ {<<c.chunk_index, c.content>> : c \in mine}
                  = {<<i, r.chunks[i + 1]>> : i \in 0..(n - 1)}
             /\ \E d \in docs' :
                  /\ {e \in docs' : e.filename = r.filename} = {d}
                  /\ d.file_hash = compute_file_hash(r.content)
                  /\ d.file_size = r.content.size
                  /\ d.chunk_count = n
                  /\ \A c \in mine : c.document_id = d.id
  ]_vars

\* a re-ingestion by different bytes that stored two chunks
C2_Witness ==
  \E p \in Procs :
    /\ req[p].pc = "done"
    /\ req[p].result.status = "updated"
    /\ req[p].existing_doc.file_hash # req[p].file_hash
    /\ Len(req[p].chunks) = 2
    /\ req[p].doc \in docs

\* C3: in every reachable store state there is at most one Document row
\* per identity key.
C3_OneDocumentPerKey ==
  \A d1 \in docs, d2 \in docs : d1.filename = d2.filename => d1 = d2

\* two uploads of one key raced: one holds the row, the other's INSERT was
\* rejected
C3_Witness ==
  \E p \in Procs, q \in Procs :
    /\ p # q
    /\ req[p].result.detail = "IntegrityError"
    /\ req[q].result.code = 200
    /\ req[q].doc \in docs
    /\ req[q].filename = req[p].filename

\* C4: a replacement is one transaction: every step of an upload that takes
\* the old Document (with its Chunks) out of the committed store puts the
\* new Document with its Chunks into it.
C4_ReplaceIsOneTransaction ==
  [][\A p \in Procs :
       ( /\ req[p].kind = "upload"
         /\ req'[p] # req[p]
         /\ req[p].existing_doc \in docs
         /\ req[p].existing_doc \notin docs' )
       => \E d \in docs' :
            /\ d.filename = req[p].filename
            /\ d.file_hash = req[p].file_hash
            /\ Cardinality({c \in chunkRows' : c.document_id = d.id}) = d.chunk_count
  ]_vars

\* C5: a request that fails in extraction, in the blank-text check or in
\* embedding has written nothing, and the failing step leaves both tables
\* (a stored Document of the key and its Chunks included) as they were.
C5_FailureBeforeSavePersistsNothing ==
  [][\A p \in Procs :
       ( HandlerStep(p, "extract") /\ req'[p].pc = "done" )
       => /\ req'[p].result.code \in {400, 500}
          /\ ~Made(req'[p], WriteCalls)
          /\ docs' = docs
          /\ chunkRows' = chunkRows
          /\ req'[p].existing_doc # NoDoc
               => /\ req'[p].existing_doc \in docs' <=> req'[p].existing_doc \in docs
                  /\ {c \in chunkRows' : c.document_id = req'[p].existing_doc.id}
                       = {c \in chunkRows : c.document_id = req'[p].existing_doc.id}
  ]_vars

\* a re-upload of a stored key failed after extraction began and the old
\* Document is still there with its Chunks
C5_Witness ==
  \E p \in Procs :
    /\ req[p].pc = "done"
    /\ req[p].result.detail \in {"Could not extract text from document",
                                 "embedding failed", "PDF extraction failed"}
    /\ req[p].existing_doc # NoDoc
    /\ req[p].existing_doc \in docs
    /\ ChunksOf(req[p].existing_doc.id) # {}

\* C7: the step that returns a 200 from an upload reports 'created' exactly
\* when the lookup found no Document of the key, 'updated' exactly when it
\* found one with another hash, 'unchanged' exactly when it found one with
\* the same hash; for 'created' and 'updated' the reported chunk count is
\* the number of Chunk rows stored for the new Document.
C7_StatusAndCount ==
  [][\A p \in Procs :
       ( /\ req[p].kind = "upload"
         /\ req[p].pc # "done"
         /\ req'[p].pc = "done"
         /\ req'[p].result.code = 200 )
       => LET r == req'[p]
              existed == r.existing_doc # NoDoc
              same == r.existing_doc.file_hash = compute_file_hash(r.content)
          IN /\ r.result.status \in {"created", "updated", "unchanged"}
             /\ r.result.status = "created" <=> ~existed
             /\ r.result.status = "updated" <=> (existed /\ ~same)
             /\ r.result.status = "unchanged" <=> (existed /\ same)
             /\ r.result.status \in {"created", "updated"}
                  => /\ r.doc \in docs'
                     /\ r.result.chunks
                          = Cardinality({c \in chunkRows' : c.document_id = r.doc.id})
                     /\ r.result.chunks = r.doc.chunk_count
  ]_vars

\* one request created a key with two chunks and the other updated a key
C7_Witness ==
  \E p \in Procs, q \in Procs :
    /\ req[p].result.status = "created"
    /\ req[p].result.chunks = 2
    /\ req[q].result.status = "updated"
    /\ req[q].result.chunks >= 1

C9_UnsupportedRejectedFirst ==
  \A p \in Procs :
    ( /\ req[p].kind = "upload"
      /\ Lower(PathSuffix(req[p].filename)) \notin SUPPORTED_EXTENSIONS )
    => /\ req[p].log = <<>>
       /\ req[p].pc \in {"validate", "done"}
       /\ req[p].pc = "done"
            => /\ req[p].result.code = 400
               /\ req[p].result.detail = "Unsupported file type"

C9_Witness ==
  \E p \in Procs :
    /\ req[p].kind = "upload"
    /\ req[p].filename = <<"x", ".", "e", "x", "e">>
    /\ req[p].pc = "done"
    /\ req[p].result.code = 400

\* ------------------------------------------------------------------------
\* chunk_text as a process: one action per loop iteration
\* ------------------------------------------------------------------------
\* the characters of the texts: a letter, blank, newline, full stop
TextAlphabet == {"a", " ", "\n", "."}

TextsUpTo(n) == UNION {[1..k -> TextAlphabet] : k \in 0..n}

\* n letters
Run(n) == [i \in 1..n |-> "a"]

\* what stands between the two runs of a longer text: a paragraph break,
\* each sentence separator, blanks, two separators in a row
Breaks ==
  { <<"\n", "\n">>, <<".", " ">>, <<".", "\n">>, <<"?", " ">>, <<"!", "\n">>,
    <<"!", " ">>, <<" ", " ">>, <<".", "\n", ".", " ">>, <<".", " ", ".", "\n">> }

\* longer texts: letters, a break, letters
LongTexts == {Run(m) \o b \o Run(n) : m \in 0..MaxRun, b \in Breaks, n \in 0..MaxRun}

\* the texts chunk_text is called with
ChunkTexts == TextsUpTo(MaxTextLen) \cup LongTexts

\* a call chunk_text(text, chunk_size, overlap) is about to run; the
\* overlap ranges up to the chunk size
ChunkInit ==
  /\ StoreInit
  /\ HubInit
  /\ ExtInit
  /\ QryInit
  /\ CliInit
  /\ \E t \in ChunkTexts, S \in 1..MaxChunkSize, O \in 0..MaxOverlap :
       /\ O <= S
       /\ ck = [CkIdle EXCEPT !.pc = "call", !.text = t, !.chunk_size = S, !.overlap = O]

\* lines 20-24: the early return, or the loop set-up
ChunkEnter ==
  /\ ck.pc = "call"
  /\ ck' = IF ChunkWhole(ck.text, ck.chunk_size)
           THEN [ck EXCEPT !.pc = "done", !.chunks = ChunkWholeResult(ck.text),
                           !.end = Len(ck.text),
                           !.spans = IF ck.text # <<>>
                                     THEN << [start |-> 0, end |-> Len(ck.text)] >>
                                     ELSE <<>>]
           ELSE [ck EXCEPT !.pc = "loop", !.start = 0, !.chunks = <<>>]
  /\ UNCHANGED nonChunkVars

\* lines 26-49: one iteration of the while loop; the loop is left by the
\* break of line 48 or by the loop condition, which test the same thing
ChunkLoopStep ==
  /\ ck.pc = "loop"
  /\ ck.iters < MaxIters
  /\ LET it == ChunkIter(ck.text, ck.chunk_size, ck.overlap, ck.start, ck.chunks)
     IN ck' = [ck EXCEPT !.chunks = it.chunks, !.start = it.start,
                         !.end = it.end,
                         !.spans = IF Len(it.chunks) > Len(ck.chunks)
                                   THEN Append(@, [start |-> ck.start, end |-> it.end])
                                   ELSE @,
                         !.iters = @ + 1,
                         !.pc = IF it.start >= Len(ck.text) THEN "done" ELSE "loop"]
  /\ UNCHANGED nonChunkVars

ChunkNext == ChunkEnter \/ ChunkLoopStep

SpecChunk == ChunkInit /\ [][ChunkNext]_vars

\* C10: chunk("", S, O) returns the empty sequence, and a non-empty text no
\* longer than S comes back whole as the only element, for every O.
C10_ShortTextWhole ==
  ck.pc = "done"
  => /\ ck.text = <<>> => ck.chunks = <<>>
     /\ (ck.text # <<>> /\ Len(ck.text) <= ck.chunk_size) => ck.chunks = <<ck.text>>

\* a text of exactly chunk_size characters that begins with a blank came
\* back whole, with a positive overlap
C10_Witness ==
  /\ ck.pc = "done"
  /\ ck.text # <<>>
  /\ Len(ck.text) = ck.chunk_size
  /\ ck.text[1] = " "
  /\ ck.overlap > 0
  /\ ck.chunks = <<ck.text>>

\* C11 as stated: for 0 <= O < S no element of chunk(T, S, O) is empty
\* after trimming whitespace, whatever the length of T.
C11_NoChunkTrimsToEmpty ==
  (ck.pc = "done" /\ ck.overlap < ck.chunk_size)
  => \A i \in 1..Len(ck.chunks) : Strip(ck.chunks[i]) # <<>>

\* C11 amended: for 0 <= O < S an element of chunk(T, S, O) is empty after
\* trimming only when T is a non-empty all-whitespace text no longer than
\* S, which the early return hands back whole; every element the loop
\* appends (T longer than S) is non-empty after trimming.
C11_OnlyShortBlankTrimsToEmpty ==
  (ck.pc = "done" /\ ck.overlap < ck.chunk_size)
  => \A i \in 1..Len(ck.chunks) :
       Strip(ck.chunks[i]) = <<>>
       => /\ Len(ck.text) <= ck.chunk_size
          /\ Strip(ck.text) = <<>>
          /\ ck.chunks = <<ck.text>>

\* a text longer than S was cut in at least three iterations, one of which
\* gave an all-whitespace span that was dropped, and two chunks came back
C11_Witness ==
  /\ ck.pc = "done"
  /\ ck.overlap < ck.chunk_size
  /\ Len(ck.text) > ck.chunk_size
  /\ Len(ck.chunks) >= 2
  /\ ck.iters > Len(ck.chunks)

\* C12: for 0 <= O < S, after every iteration the next start is at or
\* before the end of the span just cut, the span of the last iteration
\* reaches the end of T, and every non-whitespace position of T lies in the
\* span of a returned chunk.
C12_SpansCoverText ==
  ck.overlap < ck.chunk_size
  => /\ (ck.pc \in {"loop", "done"} /\ ck.iters > 0) => ck.start <= ck.end
     /\ ck.pc = "done"
        => /\ ck.end >= Len(ck.text)
           /\ Len(ck.spans) = Len(ck.chunks)
           /\ \A i \in 1..Len(ck.text) :
                ck.text[i] \notin Whitespace
                => \E k \in 1..Len(ck.spans) :
                     ck.spans[k].start < i /\ i <= ck.spans[k].end

\* a call with a positive overlap returned at least two chunks, the first
\* of them cut back to a boundary before start + S
C12_Witness ==
  /\ ck.pc = "done"
  /\ 0 < ck.overlap
  /\ ck.overlap < ck.chunk_size
  /\ Len(ck.spans) >= 2
  /\ ck.spans[1].end < ck.spans[1].start + ck.chunk_size
  /\ ck.spans[1].end < Len(ck.text)

\* C13 as stated: for 0 <= O < S every loop iteration leaves the cursor
\* non-negative and strictly greater than it was.
C13_CursorAdvances ==
  [][ ( /\ ck.pc = "loop"
        /\ ck'.iters = ck.iters + 1
        /\ ck.overlap < ck.chunk_size )
      => (ck'.start >= 0 /\ ck'.start > ck.start) ]_vars

\* C30: a call chunk(T, S, O) with O >= S on a text longer than S is
\* rejected: it neither enters the while loop nor returns chunks.
C30_OverlapNotBelowSizeRejected ==
  (ck.overlap >= ck.chunk_size /\ Len(ck.text) > ck.chunk_size)
  => ck.pc \notin {"loop", "done"}

\* ------------------------------------------------------------------------
\* Progress registry (utils/progress.py)
\* ------------------------------------------------------------------------
\* A status line is the sequence <<head, rest>>; the head of a terminal
\* status is "complete:" or "error:".  The subscribers' channels are
\* asyncio.Queue() without a size limit, so queue.put never suspends.

RECURSIVE PutAll(_, _, _)
\* for i, queue in enumerate(queues): await queue.put(item)
PutAll(qs, list, item) ==
  IF list = <<>> THEN qs
  ELSE PutAll([qs EXCEPT ![Head(list)] = Append(@, item)], Tail(list), item)

\* pushes to the queues but does not store the status in the entry
send_progressMut(up, qs, upload_id, status) ==
  IF up[upload_id].present
  THEN LET progress_data == up[upload_id]
       IN [up |-> up,
           qs |-> PutAll(qs, progress_data.queues,
                         [status |-> status, filename |-> progress_data.filename])]
  ELSE [up |-> up, qs |-> qs]

\* stores a new entry that holds the status alone
send_progressMutReplace(up, qs, upload_id, status) ==
  IF up[upload_id].present
  THEN LET progress_data == up[upload_id]
       IN [up |-> [up EXCEPT ![upload_id] =
                     [status |-> status, filename |-> <<>>, queues |-> <<>>,
                      present |-> TRUE]],
           qs |-> PutAll(qs, progress_data.queues,
                         [status |-> status, filename |-> progress_data.filename])]
  ELSE [up |-> up, qs |-> qs]

\* send_progress(upload_id, status): the registry and the queues after it
send_progress(up, qs, upload_id, status) ==
  IF up[upload_id].present
  THEN LET progress_data == [up[upload_id] EXCEPT !.status = status]
       IN [up |-> [up EXCEPT ![upload_id] = progress_data],
           qs |-> PutAll(qs, progress_data.queues,
                         [status |-> status, filename |-> progress_data.filename])]
  ELSE [up |-> up, qs |-> qs]

\* builds a fresh entry also when one exists, losing its queues
init_upload_progressMut(up, upload_id, filename) ==
  [up EXCEPT ![upload_id] =
     [status |-> <<"Uploading", filename>>, filename |-> filename,
      queues |-> <<>>, present |-> TRUE]]

\* init_upload_progress(upload_id, filename)
init_upload_progress(up, upload_id, filename) ==
  IF ~up[upload_id].present
  THEN [up EXCEPT ![upload_id] =
          [status |-> <<"Uploading", filename>>, filename |-> filename,
           queues |-> <<>>, present |-> TRUE]]
  ELSE [up EXCEPT ![upload_id].filename = filename,
                  ![upload_id].status = <<"Uploading", filename>>]

\* leaves the entry in the registry
cleanup_upload_progressMut(up, upload_id) == up

\* cleanup_upload_progress(upload_id)
cleanup_upload_progress(up, upload_id) ==
  IF up[upload_id].present THEN [up EXCEPT ![upload_id] = NoEntry] ELSE up

\* ------------------------------------------------------------------------
\* Ingestion with a job identifier, and the subscribers of its progress
\* (spec.md 4.6, 4.7: the route that calls the registry is not in src/)
\* ------------------------------------------------------------------------
JobFilenames == { <<"a", ".", "m", "d">> }

\* the channels registered under a job
RegisteredIn(up, j) == {up[j].queues[i] : i \in 1..Len(up[j].queues)}

Registered(j) == RegisteredIn(upload_progress, j)

\* the list without the channel
RECURSIVE Without(_, _)
Without(list, c) ==
  IF list = <<>> THEN <<>>
  ELSE IF Head(list) = c THEN Without(Tail(list), c)
  ELSE <<Head(list)>> \o Without(Tail(list), c)

\* a status line that ends a job's stream
Terminal(status) == status # <<>> /\ status[1] \in {"complete:", "error:"}

\* what a subscriber that attaches to an entry is handed when the entry's
\* status is terminal (<<>>: it is not)
TerminalRead(status) == IF Terminal(status) THEN status ELSE <<>>

\* subscribe(jobId): a new channel without a size limit is registered; the
\* subscriber creates the entry if it is missing
Subscribe(c, j) ==
  /\ \A k \in HubIds : c \notin Registered(k)
  /\ job[j].pc # "closed"
  /\ LET e == IF upload_progress[j].present THEN upload_progress[j]
              ELSE [status |-> <<"waiting", <<>> >>, filename |-> <<>>,
                    queues |-> <<>>, present |-> TRUE]
     IN upload_progress' = [upload_progress EXCEPT ![j] = [e EXCEPT !.queues = Append(@, c)]]
  /\ queues' = [queues EXCEPT ![c] = <<>>]
  /\ attach' = [attach EXCEPT ![c] = TerminalRead(upload_progress'[j].status)]
  /\ UNCHANGED <<job, storeVars, ck, qmax, pub, hop, extVars, qryVars, cliVars>>

\* unsubscribe(jobId, channel)
Unsubscribe(c, j) ==
  /\ c \in Registered(j)
  /\ upload_progress' = [upload_progress EXCEPT ![j].queues = Without(@, c)]
  /\ attach' = [attach EXCEPT ![c] = <<>>]
  /\ UNCHANGED <<queues, job, storeVars, ck, qmax, pub, hop, extVars, qryVars, cliVars>>

\* the subscriber takes the next item of its channel
Dequeue(c) ==
  /\ queues[c] # <<>>
  /\ queues' = [queues EXCEPT ![c] = Tail(@)]
  /\ UNCHANGED <<upload_progress, job, nonHubVars>>

\* the pipeline's positions in order, and the status published on entering
\* each of them
Stages == <<"validate", "size", "lookup", "extract", "chunk", "embed", "save">>

StageStatus(pc) ==
  CASE pc = "extract" -> <<"extracting">>
    [] pc = "chunk" -> <<"chunking">>
    [] pc = "embed" -> <<"embedding">>
    [] pc = "save" -> <<"saving">>
    [] OTHER -> <<>>

StageIndex(pc) == CHOOSE i \in 1..Len(Stages) : Stages[i] = pc

\* the error a step can end in
StageErrors(pc) ==
  CASE pc = "validate" -> {400}
    [] pc = "size" -> {400}
    [] pc = "lookup" -> {500}
    [] pc = "extract" -> {400, 500, 504}
    [] pc = "chunk" -> {500}
    [] pc = "embed" -> {500}
    [] pc = "save" -> {500}
    [] OTHER -> {}

Publish(j, status) ==
  LET r == send_progress(upload_progress, queues, j, status)
  IN /\ upload_progress' = r.up
     /\ queues' = r.qs

\* the request begins: the entry is opened and "uploading" published
IngestOpen(j) ==
  /\ job[j].pc = "idle"
  /\ \E f \in JobFilenames :
       LET opened == init_upload_progress(upload_progress, j, f)
           r == send_progress(opened, queues, j, <<"uploading", f>>)
       IN /\ upload_progress' = r.up
          /\ queues' = r.qs
          /\ job' = [job EXCEPT ![j] = [IdleJob EXCEPT !.pc = "validate", !.filename = f]]
  /\ UNCHANGED nonHubVars

\* a step succeeds: the next step's status is published
IngestStep(j) ==
  /\ job[j].pc \in {Stages[i] : i \in 1..(Len(Stages) - 1)}
  /\ LET next == Stages[StageIndex(job[j].pc) + 1]
     IN /\ IF StageStatus(next) # <<>>
           THEN Publish(j, StageStatus(next))
           ELSE UNCHANGED <<upload_progress, queues>>
        /\ job' = [job EXCEPT ![j].pc = next]
  /\ UNCHANGED nonHubVars

\* the lookup finds the same hash: "complete: already indexed"
IngestUnchanged(j) ==
  /\ job[j].pc = "lookup"
  /\ Publish(j, <<"complete:", "already indexed">>)
  /\ job' = [job EXCEPT ![j].pc = "respond",
                        ![j].outcome = [kind |-> "success", code |-> 200, status |-> "unchanged"]]
  /\ UNCHANGED nonHubVars

\* the rows are saved: "complete: <filename> uploaded successfully"
IngestComplete(j) ==
  /\ job[j].pc = "save"
  /\ Publish(j, <<"complete:", job[j].filename>>)
  /\ \E st \in {"created", "updated"} :
       job' = [job EXCEPT ![j].pc = "respond",
                          ![j].outcome = [kind |-> "success", code |-> 200, status |-> st]]
  /\ UNCHANGED nonHubVars

\* a step raises: the error is published as "error:<message>" and raised
\* to the caller
IngestRaise(j) ==
  /\ job[j].pc \in {Stages[i] : i \in 1..Len(Stages)}
  /\ \E code \in StageErrors(job[j].pc) :
       /\ Publish(j, <<"error:", job[j].pc>>)
       /\ job' = [job EXCEPT ![j].pc = "respond",
                             ![j].outcome = [kind |-> "error", code |-> code, status |-> ""]]
  /\ UNCHANGED nonHubVars

\* the caller receives the response
IngestRespond(j) ==
  /\ job[j].pc = "respond"
  /\ job' = [job EXCEPT ![j].pc = "returned"]
  /\ UNCHANGED <<upload_progress, queues, nonHubVars>>

\* the cleanup scheduled for the end of the grace period runs
Cleanup(j) ==
  /\ job[j].pc = "returned"
  /\ upload_progress' = cleanup_upload_progress(upload_progress, j)
  /\ job' = [job EXCEPT ![j].pc = "closed"]
  /\ UNCHANGED <<queues, nonHubVars>>

JobNext ==
  \/ \E c \in Chans, j \in JobIds : Subscribe(c, j)
  \/ \E c \in Chans, j \in JobIds : Unsubscribe(c, j)
  \/ \E c \in Chans : Dequeue(c)
  \/ \E j \in JobIds : IngestOpen(j)
  \/ \E j \in JobIds : IngestStep(j)
  \/ \E j \in JobIds : IngestUnchanged(j)
  \/ \E j \in JobIds : IngestComplete(j)
  \/ \E j \in JobIds : IngestRaise(j)
  \/ \E j \in JobIds : IngestRespond(j)
  \/ \E j \in JobIds : Cleanup(j)

SpecJob == Init /\ [][JobNext]_vars

HubFilenames == { <<"a", ".", "m", "d">>, <<"b", ".", "m", "d">> }

HubStatuses == { <<"extracting">>, <<"complete:", "ok">> }

\* queue.full()
Full(qs, c) == qmax[c] > 0 /\ Len(qs[c]) >= qmax[c]

\* the entry a task inside send_progress works on: progress_data is a
\* reference, so the task sees the registry's entry until the entry is
\* deleted, and from then on the object it still holds
PubData(x, up) ==
  IF x.det THEN x.own
  ELSE [filename |-> up[x.upload_id].filename, queues |-> up[x.upload_id].queues]


RECURSIVE RunPuts(_, _, _)
\* lines 19-24 from queue number x.i on, up to the first queue.put that
\* suspends or to the end of the list
RunPuts(x, up, qs) ==
  LET data == PubData(x, up)
      list == data.queues
      item == [status |-> x.status, filename |-> data.filename]
  IN IF x.i >= Len(list) THEN [x |-> [x EXCEPT !.pc = "yield"], qs |-> qs]
     ELSE LET c == list[x.i + 1]
          IN IF Full(qs, c)
             THEN [x |-> [x EXCEPT !.pc = "put", !.chan = c, !.item = item], qs |-> qs]
             ELSE RunPuts([x EXCEPT !.i = @ + 1, !.got = Append(@, c)], up,
                          [qs EXCEPT ![c] = Append(@, item)])

\* a task calls init_upload_progress(j, f)
HubOpen(j, f) ==
  /\ hop.n < MaxHubOps
  /\ upload_progress' = init_upload_progress(upload_progress, j, f)
  /\ hop' = [op |-> "open", id |-> j, arg |-> f, n |-> hop.n + 1]
  /\ UNCHANGED <<queues, qmax, attach, pub, nonPubVars>>

\* an unknown upload_id gets an entry that holds the status
HubPublishMut(p, j, status) ==
  /\ hop.n < MaxHubOps
  /\ pub[p].pc = "idle"
  /\ hop' = [op |-> "publish", id |-> j, arg |-> status, n |-> hop.n + 1]
  /\ IF upload_progress[j].present
     THEN LET up == [upload_progress EXCEPT ![j].status = status]
              r == RunPuts([IdlePub EXCEPT !.upload_id = j, !.status = status,
                                           !.at = up[j].queues,
                                           !.stay = RegisteredIn(up, j)], up, queues)
          IN /\ upload_progress' = up
             /\ queues' = r.qs
             /\ pub' = [pub EXCEPT ![p] = r.x]
     ELSE /\ upload_progress' = [upload_progress EXCEPT ![j] =
                                   [status |-> status, filename |-> <<>>,
                                    queues |-> <<>>, present |-> TRUE]]
          /\ UNCHANGED <<queues, pub>>
  /\ UNCHANGED <<qmax, attach, nonPubVars>>

\* task p calls send_progress(j, status): lines 14-18, then the puts up to
\* the first suspension; an unknown upload_id only logs a warning
HubPublish(p, j, status) ==
  /\ hop.n < MaxHubOps
  /\ pub[p].pc = "idle"
  /\ hop' = [op |-> "publish", id |-> j, arg |-> status, n |-> hop.n + 1]
  /\ IF upload_progress[j].present
     THEN LET up == [upload_progress EXCEPT ![j].status = status]
              r == RunPuts([IdlePub EXCEPT !.upload_id = j, !.status = status,
                                           !.at = up[j].queues,
                                           !.stay = RegisteredIn(up, j)], up, queues)
          IN /\ upload_progress' = up
             /\ queues' = r.qs
             /\ pub' = [pub EXCEPT ![p] = r.x]
     ELSE UNCHANGED <<upload_progress, queues, pub>>
  /\ UNCHANGED <<qmax, attach, nonPubVars>>

\* the queue task p waits on has room again: the put of line 21 completes
\* and the loop goes on
HubPutResume(p) ==
  /\ pub[p].pc = "put"
  /\ ~Full(queues, pub[p].chan)
  /\ LET c == pub[p].chan
         r == RunPuts([pub[p] EXCEPT !.i = @ + 1, !.chan = 0,
                                     !.item = IdlePub.item, !.got = Append(@, c)],
                      upload_progress,
                      [queues EXCEPT ![c] = Append(@, pub[p].item)])
     IN /\ queues' = r.qs
        /\ pub' = [pub EXCEPT ![p] = r.x]
  /\ UNCHANGED <<upload_progress, qmax, attach, hop, nonPubVars>>

\* line 26: the task is scheduled again after asyncio.sleep(0) and returns
HubPubReturn(p) ==
  /\ pub[p].pc = "yield"
  /\ pub' = [pub EXCEPT ![p] = IdlePub]
  /\ UNCHANGED <<upload_progress, queues, qmax, attach, hop, nonPubVars>>

\* a task calls cleanup_upload_progress(j); a task still inside
\* send_progress(j, ..) keeps the deleted entry
HubClose(j) ==
  /\ hop.n < MaxHubOps
  /\ upload_progress' = cleanup_upload_progress(upload_progress, j)
  /\ pub' = [p \in Pubs |->
               IF pub[p].pc # "idle" /\ pub[p].upload_id = j /\ ~pub[p].det
               THEN [pub[p] EXCEPT !.det = TRUE, !.own = PubData(pub[p], upload_progress),
                                   !.stay = {}]
               ELSE pub[p]]
  /\ hop' = [op |-> "close", id |-> j, arg |-> <<>>, n |-> hop.n + 1]
  /\ UNCHANGED <<queues, qmax, attach, nonPubVars>>

\* subscribe(jobId): a subscriber creates its queue, with or without a
\* size limit, and registers it; it creates the entry if it is missing
HubSubscribe(c, j, maxsize) ==
  /\ qmax[c] = -1
  /\ LET e == IF upload_progress[j].present THEN upload_progress[j]
              ELSE [status |-> <<"waiting", <<>> >>, filename |-> <<>>,
                    queues |-> <<>>, present |-> TRUE]
     IN upload_progress' = [upload_progress EXCEPT ![j] = [e EXCEPT !.queues = Append(@, c)]]
  /\ qmax' = [qmax EXCEPT ![c] = maxsize]
  /\ attach' = [attach EXCEPT ![c] = TerminalRead(upload_progress'[j].status)]
  /\ UNCHANGED <<queues, pub, hop, nonPubVars>>

\* unsubscribe(jobId, channel)
HubUnsubscribe(c, j) ==
  /\ c \in Registered(j)
  /\ upload_progress' = [upload_progress EXCEPT ![j].queues = Without(@, c)]
  /\ attach' = [attach EXCEPT ![c] = <<>>]
  /\ pub' = [p \in Pubs |->
               IF pub[p].pc # "idle" /\ pub[p].upload_id = j
               THEN [pub[p] EXCEPT !.stay = @ \ {c}]
               ELSE pub[p]]
  /\ UNCHANGED <<queues, qmax, hop, nonPubVars>>

\* the subscriber takes the next item of its queue
HubDequeue(c) ==
  /\ queues[c] # <<>>
  /\ queues' = [queues EXCEPT ![c] = Tail(@)]
  /\ UNCHANGED <<upload_progress, qmax, attach, pub, hop, nonPubVars>>

HubNext ==
  \/ \E j \in HubIds, f \in HubFilenames : HubOpen(j, f)
  \/ \E p \in Pubs, j \in HubIds, status \in HubStatuses : HubPublish(p, j, status)
  \/ \E p \in Pubs : HubPutResume(p)
  \/ \E p \in Pubs : HubPubReturn(p)
  \/ \E j \in HubIds : HubClose(j)
  \/ \E c \in HubChans, j \in HubIds, maxsize \in {0, QueueMax} : HubSubscribe(c, j, maxsize)
  \/ \E c \in HubChans, j \in HubIds : HubUnsubscribe(c, j)
  \/ \E c \in HubChans : HubDequeue(c)

SpecHub == Init /\ [][HubNext]_vars


\* C16 as stated: a publish on a known job sets the entry's status and
\* appends one {status, filename} item to every channel registered for the
\* job at that moment.
C16_PublishReachesEveryChannel ==
  [][ ( /\ hop'.n = hop.n + 1
        /\ hop'.op = "publish"
        /\ upload_progress[hop'.id].present )
      => LET j == hop'.id
             item == [status |-> hop'.arg, filename |-> upload_progress[j].filename]
         IN /\ upload_progress'[j].status = hop'.arg
            /\ \A c \in Registered(j) : queues'[c] = Append(queues[c], item) ]_vars

\* when no channel registered for the job is full, the publish step does
\* reach every one of them at once (with none registered it only stores
\* the status) and touches no other queue and no other entry
PublishAtOnceWhenRoom ==
  [][ ( /\ hop'.n = hop.n + 1
        /\ hop'.op = "publish"
        /\ upload_progress[hop'.id].present
        /\ \A c \in Registered(hop'.id) : ~Full(queues, c) )
      => LET j == hop'.id
             item == [status |-> hop'.arg, filename |-> upload_progress[j].filename]
         IN /\ upload_progress' = [upload_progress EXCEPT ![j].status = hop'.arg]
            /\ \A c \in Registered(j) : queues'[c] = Append(queues[c], item)
            /\ \A c \in HubChans \ Registered(j) : queues'[c] = queues[c] ]_vars

\* C17 as stated: a task suspended inside publish at a full queue has
\* delivered the item to every other channel that was registered for the
\* job when publish was called.
C17_FullQueueDoesNotHoldOthersBack ==
  \A p \in Pubs :
    pub[p].pc = "put"
    => LET list == pub[p].at
       IN \A k \in 1..Len(list) :
            list[k] # pub[p].chan
            => /\ queues[list[k]] # <<>>
               /\ queues[list[k]][Len(queues[list[k]])].status = pub[p].status

C19_OpenKeepsSubscribers ==
  [][ ( hop'.n = hop.n + 1 /\ hop'.op = "open" )
      => LET j == hop'.id
             f == hop'.arg
             e == upload_progress[j]
             e2 == upload_progress'[j]
         IN /\ e2.present
            /\ e2.filename = f
            /\ e2.status = <<"Uploading", f>>
            /\ e2.queues = IF e.present THEN e.queues ELSE <<>>
            /\ \A k \in HubIds \ {j} : upload_progress'[k] = upload_progress[k]
            /\ queues' = queues ]_vars

\* the last call opened an entry whose subscriber still holds an item
\* published before the entry had this filename, while another job has an
\* entry of its own
C19_Witness ==
  /\ hop.op = "open"
  /\ LET e == upload_progress[hop.id]
     IN /\ e.present
        /\ e.filename = hop.arg
        /\ e.status = <<"Uploading", hop.arg>>
        /\ \E c \in Registered(hop.id) :
             /\ queues[c] # <<>>
             /\ queues[c][1].filename # hop.arg
  /\ \E k \in HubIds \ {hop.id} : upload_progress[k].present

\* ------------------------------------------------------------------------
\* PDF extraction (services/extraction.py): one call of extract_text for a
\* PDF at a time; a page's text is the letter p and the page's number, so
\* that the text of a page range tells which pages it came from
\* ------------------------------------------------------------------------
PdfName == <<"b", ".", "p", "d", "f">>

\* the PDFs extracted: large by size with any number of pages, small, and
\* one that PdfReader cannot open
Pdfs ==
  {[pages |-> n, size_mb |-> 8, readable |-> TRUE] : n \in 0..MaxPages}
  \cup {[pages |-> MaxPages, size_mb |-> 1, readable |-> TRUE],
        [pages |-> 0, size_mb |-> 1, readable |-> FALSE]}

Digits == <<"1", "2", "3", "4", "5", "6", "7", "8", "9">>

\* the text of page number n (0-based)
PageText(n) == <<"p", Digits[n + 1]>>

RECURSIVE BatchText(_, _)
\* what the service returns for pages page_start .. page_end - 1
BatchText(page_start, page_end) ==
  IF page_start >= page_end THEN <<>>
  ELSE PageText(page_start) \o BatchText(page_start + 1, page_end)

RECURSIVE Join(_)
\* "\n\n".join(parts)
Join(parts) ==
  IF parts = <<>> THEN <<>>
  ELSE IF Len(parts) = 1 THEN parts[1]
  ELSE parts[1] \o <<"\n", "\n">> \o Join(Tail(parts))

\* line 172
LargePdf(size_mb, total_pages) == size_mb > 5 \/ total_pages > 50

\* line 178
TotalBatches(total_pages) == (total_pages + PDF_BATCH_SIZE - 1) \div PDF_BATCH_SIZE

\* applies the cap only when it is below the batch count by two or more
BatchesToProcessMut(total_pages, max_batches) ==
  IF max_batches # None /\ max_batches > 0 /\ TotalBatches(total_pages) > max_batches + 1
  THEN max_batches
  ELSE TotalBatches(total_pages)

\* lines 181-185
BatchesToProcess(total_pages, max_batches) ==
  IF max_batches # None /\ max_batches > 0 /\ TotalBatches(total_pages) > max_batches
  THEN max_batches
  ELSE TotalBatches(total_pages)

\* batch_start of the batch_num-th value of range(0, total_pages, PDF_BATCH_SIZE)
BatchStart(batch_num) == (batch_num - 1) * PDF_BATCH_SIZE

\* batch_start + PDF_BATCH_SIZE without the min of line 193
BatchEndMut(batch_num, total_pages) == BatchStart(batch_num) + PDF_BATCH_SIZE

\* line 193
BatchEnd(batch_num, total_pages) == Min(BatchStart(batch_num) + PDF_BATCH_SIZE, total_pages)

\* how a call of the external service ends
CallOutcomes == {"ok", "timeout", "policy", "badrequest", "other"}

\* an exception object: its class, and for an HTTPException status and
\* detail (the message and the page range it names)
Exc(type, code, msg, first, last) ==
  [type |-> type, code |-> code, msg |-> msg, first |-> first, last |-> last]

\* what messages.create raises
ApiRaises(outcome) ==
  CASE outcome = "timeout" -> Exc("APITimeoutError", 0, "timeout", 0, 0)
    [] outcome = "policy" -> Exc("BadRequestError", 0, "content filtering policy", 0, 0)
    [] outcome = "badrequest" -> Exc("BadRequestError", 0, "bad request", 0, 0)
    [] OTHER -> Exc("Exception", 0, "other", 0, 0)

\* lines 120-135: what extract_text_from_pdf_batch raises for the exception
\* of its call
BatchExcept(exc, page_start, page_end) ==
  IF exc.type = "APITimeoutError"
  THEN Exc("HTTPException", 504, "Claude API timeout on pages", page_start + 1, page_end)
  ELSE IF exc.type = "BadRequestError"
  THEN IF exc.msg = "content filtering policy"
       THEN Exc("HTTPException", 400, "PDF content blocked by content filtering policy",
                page_start + 1, page_end)
       ELSE Exc("HTTPException", 400, "Claude API error on pages", page_start + 1, page_end)
  ELSE exc

\* the response that carries an exception to the caller
Raised(exc) ==
  [NoText EXCEPT !.kind = "error", !.code = exc.code, !.msg = exc.msg,
                 !.first = exc.first, !.last = exc.last]


\* lines 255-264: the handlers around the body of extract_text_from_pdf,
\* applied to an exception raised inside it; an HTTPException is an
\* Exception and not a BadRequestError
PdfExcept(exc) ==
  IF exc.type = "BadRequestError"
  THEN IF exc.msg = "content filtering policy"
       THEN Raised(Exc("HTTPException", 400, "PDF content was blocked", 0, 0))
       ELSE Raised(Exc("HTTPException", 400, "Claude API error", 0, 0))
  ELSE [NoText EXCEPT !.kind = "error", !.code = 500,
                      !.msg = "PDF extraction failed", !.wraps = exc.code,
                      !.first = exc.first, !.last = exc.last]

\* min_interval of line 39, in ticks
MinInterval == (60 * TicksPerSecond) \div PDF_BATCHES_PER_MINUTE


\* rate_limit_batch up to its await: whether it sleeps and until when,
\* or last_batch_time as line 51 sets it
RateLimit(last_batch_time, t) ==
  IF PDF_BATCHES_PER_MINUTE <= 0
  THEN [sleep |-> FALSE, wake |-> 0, last_batch_time |-> last_batch_time]
  ELSE IF last_batch_time # None /\ t - last_batch_time < MinInterval
  THEN [sleep |-> TRUE, wake |-> t + (MinInterval - (t - last_batch_time)),
        last_batch_time |-> last_batch_time]
  ELSE [sleep |-> FALSE, wake |-> 0, last_batch_time |-> t]

\* line 204: the batch call is sent, at time t
StartCall(x, t) ==
  [x EXCEPT !.pc = "call",
            !.calls = Append(@, [page_start |-> BatchStart(x.batch_num),
                                 page_end |-> BatchEnd(x.batch_num, x.pages),
                                 at |-> t])]

\* hands back the text of the batches before the one that failed
FailBatchMut(x, outcome) ==
  [x EXCEPT !.pc = "done", !.failure = outcome,
            !.result = [NoText EXCEPT !.kind = "text",
                                      !.text = Join(x.extracted_parts)]]

\* the call of line 204 raises: the exception leaves the loop through the
\* handlers of extract_text_from_pdf_batch and of extract_text_from_pdf
FailBatch(x, outcome) ==
  LET call == x.calls[Len(x.calls)]
  IN [x EXCEPT !.pc = "done", !.failure = outcome,
               !.result = PdfExcept(BatchExcept(ApiRaises(outcome),
                                                call.page_start, call.page_end))]

\* lines 200-204: the rate limiter before every batch but the first, then
\* the call
AfterAnnounce(x, last_batch_time, t) ==
  IF x.batch_num > 1
  THEN LET r == RateLimit(last_batch_time, t)
       IN IF r.sleep
          THEN [x |-> [x EXCEPT !.pc = "sleep", !.wake = r.wake],
                last_batch_time |-> r.last_batch_time]
          ELSE [x |-> StartCall(x, t), last_batch_time |-> r.last_batch_time]
  ELSE [x |-> StartCall(x, t), last_batch_time |-> last_batch_time]

\* announces the first batch only
LoopHeadMut(x, up, qs, last_batch_time, t) ==
  IF BatchStart(x.batch_num) >= x.pages \/ x.batch_num > x.batches_to_process
  THEN [x |-> [x EXCEPT !.pc = "done",
                        !.result = [NoText EXCEPT !.kind = "text",
                                                  !.text = Join(x.extracted_parts)]],
        up |-> up, qs |-> qs, last_batch_time |-> last_batch_time]
  ELSE IF x.upload_id # 0 /\ up[x.upload_id].present /\ x.batch_num = 1
  THEN LET r == send_progress(up, qs, x.upload_id,
                              <<"Processing batch", Digits[x.batch_num]>>)
       IN [x |-> [x EXCEPT !.pc = "announced"], up |-> r.up, qs |-> r.qs,
           last_batch_time |-> last_batch_time]
  ELSE LET r == AfterAnnounce(x, last_batch_time, t)
       IN [x |-> r.x, up |-> up, qs |-> qs, last_batch_time |-> r.last_batch_time]

\* lines 187-210 from the head of the loop to the next await: the loop
\* ends and the parts are joined, or the batch is announced (send_progress
\* yields when it knows the upload_id), throttled and sent
LoopHead(x, up, qs, last_batch_time, t) ==
  IF BatchStart(x.batch_num) >= x.pages \/ x.batch_num > x.batches_to_process
  THEN [x |-> [x EXCEPT !.pc = "done",
                        !.result = [NoText EXCEPT !.kind = "text",
                                                  !.text = Join(x.extracted_parts)]],
        up |-> up, qs |-> qs, last_batch_time |-> last_batch_time]
  ELSE IF x.upload_id # 0 /\ up[x.upload_id].present
  THEN LET r == send_progress(up, qs, x.upload_id,
                              <<"Processing batch", Digits[x.batch_num]>>)
       IN [x |-> [x EXCEPT !.pc = "announced"], up |-> r.up, qs |-> r.qs,
           last_batch_time |-> last_batch_time]
  ELSE LET r == AfterAnnounce(x, last_batch_time, t)
       IN [x |-> r.x, up |-> up, qs |-> qs, last_batch_time |-> r.last_batch_time]

\* the ingestion route opens the job's entry before it calls extract_text
ExtOpenJob(j) ==
  /\ extr.pc = "idle"
  /\ ~upload_progress[j].present
  /\ upload_progress' = init_upload_progress(upload_progress, j, PdfName)
  /\ UNCHANGED <<queues, extVars, nonExtVars>>

\* extract_text(content, filename, upload_id) is called for a PDF: lines
\* 140-185 and the loop up to its first await
BeginExtract ==
  /\ extr.pc = "idle"
  /\ \E pdf \in Pdfs, upload_id \in {0} \cup JobIds :
       LET x == [IdleExt EXCEPT !.pages = pdf.pages, !.size_mb = pdf.size_mb,
                                !.upload_id = upload_id, !.batch_num = 1,
                                !.batches_to_process =
                                   BatchesToProcess(pdf.pages, svc.PDF_MAX_BATCHES)]
       IN IF ~svc.claude_client
          THEN /\ extr' = [x EXCEPT !.pc = "done", !.batch_num = 0,
                                    !.result = Raised(Exc("HTTPException", 500,
                                                  "Claude API not configured", 0, 0))]
               /\ UNCHANGED <<upload_progress, queues, svc>>
          ELSE IF ~pdf.readable
          THEN /\ extr' = [x EXCEPT !.pc = "done", !.batch_num = 0,
                                    !.result = PdfExcept(Exc("Exception", 0, "other", 0, 0))]
               /\ UNCHANGED <<upload_progress, queues, svc>>
          ELSE IF LargePdf(pdf.size_mb, pdf.pages)
          THEN LET r == LoopHead(x, upload_progress, queues, svc.last_batch_time, now)
               IN /\ extr' = r.x
                  /\ upload_progress' = r.up
                  /\ queues' = r.qs
                  /\ svc' = [svc EXCEPT !.last_batch_time = r.last_batch_time]
          ELSE /\ extr' = [x EXCEPT !.pc = "single", !.batch_num = 0]
               /\ UNCHANGED <<upload_progress, queues, svc>>
  /\ UNCHANGED <<thr, now, nonExtVars>>

\* the task is scheduled again after the yield of send_progress
ExtResume ==
  /\ extr.pc = "announced"
  /\ LET r == AfterAnnounce(extr, svc.last_batch_time, now)
     IN /\ extr' = r.x
        /\ svc' = [svc EXCEPT !.last_batch_time = r.last_batch_time]
  /\ UNCHANGED <<upload_progress, queues, thr, now, nonExtVars>>

\* asyncio.sleep(wait_time) of rate_limit_batch is over: line 51, then the
\* call
ExtWake ==
  /\ extr.pc = "sleep"
  /\ now >= extr.wake
  /\ svc' = [svc EXCEPT !.last_batch_time = now]
  /\ extr' = StartCall([extr EXCEPT !.wake = 0], now)
  /\ UNCHANGED <<upload_progress, queues, thr, now, nonExtVars>>

\* the batch call of line 204 ends: its text is appended and the loop goes
\* on, or its exception goes through the handlers of both functions
ExtBatchReturn ==
  /\ extr.pc = "call"
  /\ \E outcome \in CallOutcomes :
       LET call == extr.calls[Len(extr.calls)]
       IN IF outcome = "ok"
          THEN LET x == [extr EXCEPT
                           !.extracted_parts =
                              Append(@, BatchText(call.page_start,
                                                  Min(call.page_end, extr.pages))),
                           !.batch_num = @ + 1]
                   r == LoopHead(x, upload_progress, queues, svc.last_batch_time, now)
               IN /\ extr' = r.x
                  /\ upload_progress' = r.up
                  /\ queues' = r.qs
                  /\ svc' = [svc EXCEPT !.last_batch_time = r.last_batch_time]
          ELSE /\ extr' = FailBatch(extr, outcome)
               /\ UNCHANGED <<upload_progress, queues, svc>>
  /\ UNCHANGED <<thr, now, nonExtVars>>

\* the single call for a small PDF (lines 222-253) ends
ExtSingleReturn ==
  /\ extr.pc = "single"
  /\ \E outcome \in CallOutcomes :
       extr' = IF outcome = "ok"
               THEN [extr EXCEPT !.pc = "done",
                                 !.result = [NoText EXCEPT !.kind = "text",
                                                           !.text = BatchText(0, extr.pages)]]
               ELSE [extr EXCEPT !.pc = "done", !.failure = outcome,
                                 !.result = PdfExcept(ApiRaises(outcome))]
  /\ UNCHANGED <<upload_progress, queues, svc, thr, now, nonExtVars>>

\* the caller has the text or the exception
ExtFinish ==
  /\ extr.pc = "done"
  /\ extr' = IdleExt
  /\ UNCHANGED <<upload_progress, queues, svc, thr, now, nonExtVars>>

\* time passes
Tick ==
  /\ now < MaxTime
  /\ now' = now + 1
  /\ UNCHANGED <<upload_progress, queues, extr, thr, svc, nonExtVars>>

ExtractInit ==
  /\ StoreInit
  /\ ck = CkIdle
  /\ HubInit
  /\ extr = IdleExt
  /\ thr = [c \in Callers |-> [pc |-> "out", wake |-> 0]]
  /\ svc \in Configs
  /\ now = 0
  /\ QryInit
  /\ CliInit

ExtractNext ==
  \/ \E j \in JobIds : ExtOpenJob(j)
  \/ BeginExtract
  \/ ExtResume
  \/ ExtWake
  \/ ExtBatchReturn
  \/ ExtSingleReturn
  \/ ExtFinish
  \/ Tick

SpecExtract == ExtractInit /\ [][ExtractNext]_vars

\* ceil(P / B)
CeilDiv(P, B) == CHOOSE n \in 0..P : n * B >= P /\ (n = 0 \/ (n - 1) * B < P)

\* the extraction of a large PDF has returned its text and the batch cap
\* did not apply
ExtractedUncapped ==
  /\ extr.pc = "done"
  /\ extr.result.kind = "text"
  /\ LargePdf(extr.size_mb, extr.pages)
  /\ \/ svc.PDF_MAX_BATCHES = None
     \/ svc.PDF_MAX_BATCHES <= 0
     \/ svc.PDF_MAX_BATCHES >= CeilDiv(extr.pages, PDF_BATCH_SIZE)

\* C14: when the extraction of a large PDF of P pages returns its text and
\* no batch cap applied, exactly ceil(P/B) batch calls were sent, the k-th
\* (from 0) for the pages [kB, min((k+1)B, P)), in ascending k, every page
\* lies in exactly one of the ranges, and the text is the outputs of the
\* calls in that order with "\n\n" between them
C14_BatchesCoverPagesInOrder ==
  ExtractedUncapped =>
    LET P == extr.pages
        B == PDF_BATCH_SIZE
        n == Len(extr.calls)
    IN /\ n = CeilDiv(P, B)
       /\ \A k \in 0..(n - 1) :
            /\ extr.calls[k + 1].page_start = k * B
            /\ extr.calls[k + 1].page_end = Min((k + 1) * B, P)
       /\ \A page \in 0..(P - 1) :
            Cardinality({k \in 1..n : /\ extr.calls[k].page_start <= page
                                      /\ page < extr.calls[k].page_end}) = 1
       /\ extr.result.text =
            Join([k \in 1..n |-> BatchText(extr.calls[k].page_start,
                                           extr.calls[k].page_end)])

\* a PDF whose last batch is shorter than the others has been extracted in
\* more than two batches
C14_Witness ==
  /\ ExtractedUncapped
  /\ Len(extr.calls) > 2
  /\ extr.pages % PDF_BATCH_SIZE # 0
  /\ extr.result.text # <<>>

\* the extraction has ended with the failure of a batch call
BatchFailed(kind) ==
  /\ extr.pc = "done"
  /\ extr.failure = kind
  /\ Len(extr.calls) > 0

\* C15: when the call for a page batch times out, the caller of extract
\* receives the 504 error; when it is rejected by content policy, the
\* caller receives a 400 error that names the pages of the batch; neither
\* arrives as a 500
C15_FailureKindPreserved ==
  LET call == extr.calls[Len(extr.calls)]
  IN /\ BatchFailed("timeout") => extr.result.code = 504
     /\ BatchFailed("policy") =>
          /\ extr.result.code = 400
          /\ extr.result.first = call.page_start + 1
          /\ extr.result.last = call.page_end
     /\ (BatchFailed("timeout") \/ BatchFailed("policy")) => extr.result.code # 500

\* C27: when the call for batch k of a large PDF fails, whatever the
\* failure, extract raises: it returns no text, not even that of the
\* batches 1..k-1, the calls made are those of the batches 1..k, and no
\* further call of that extraction follows
C27_FailureAbortsRemainingBatches ==
  /\ [](\A kind \in CallOutcomes \ {"ok"} :
          BatchFailed(kind) =>
            /\ extr.result.kind = "error"
            /\ extr.result.text = <<>>
            /\ Len(extr.calls) = extr.batch_num
            /\ Len(extr.extracted_parts) = extr.batch_num - 1)
  /\ [][(\E kind \in CallOutcomes \ {"ok"} : BatchFailed(kind))
        => (extr' = extr \/ extr' = IdleExt)]_vars

\* the second or a later batch of a PDF failed with an error other than a
\* timeout or a rejection, after the batches before it had given text
C27_Witness ==
  /\ BatchFailed("other")
  /\ extr.batch_num >= 2
  /\ extr.batch_num < extr.batches_to_process
  /\ extr.extracted_parts # <<>>
  /\ extr.result.kind = "error"


\* the batch cap M applies to a PDF of P pages
CapInEffect(P) ==
  /\ svc.PDF_MAX_BATCHES # None
  /\ svc.PDF_MAX_BATCHES > 0
  /\ CeilDiv(P, PDF_BATCH_SIZE) > svc.PDF_MAX_BATCHES

\* the batches of a PDF of P pages that are to be processed: M under the
\* cap, all of them otherwise
Allowed(P) == IF CapInEffect(P) THEN svc.PDF_MAX_BATCHES ELSE CeilDiv(P, PDF_BATCH_SIZE)

\* the batch a progress status announces, 0 if it announces none
Announced(status) ==
  IF status # <<>> /\ status[1] = "Processing batch"
  THEN CHOOSE k \in 1..Len(Digits) : Digits[k] = status[2]
  ELSE 0

\* C28: when a cap M > 0 is configured and ceil(P/B) > M, exactly the
\* batches 1..M are called, no batch beyond M is called or announced, and
\* the extraction returns the M outputs joined; with the cap unset, 0 or
\* not below the batch count every batch is processed
C28_CapLimitsBatches ==
  /\ [](LargePdf(extr.size_mb, extr.pages) =>
          /\ Len(extr.calls) <= Allowed(extr.pages)
          /\ \A k \in 1..Len(extr.calls) :
               /\ extr.calls[k].page_start = (k - 1) * PDF_BATCH_SIZE
               /\ extr.calls[k].page_end = Min(k * PDF_BATCH_SIZE, extr.pages)
          /\ (extr.pc = "done" /\ extr.failure = "none" /\ extr.batch_num > 0)
               => /\ extr.result.kind = "text"
                  /\ Len(extr.calls) = Allowed(extr.pages)
                  /\ extr.result.text =
                       Join([k \in 1..Allowed(extr.pages) |->
                               BatchText((k - 1) * PDF_BATCH_SIZE,
                                         Min(k * PDF_BATCH_SIZE, extr.pages))]))
  /\ [][\A j \in JobIds :
          upload_progress'[j].status # upload_progress[j].status
          => Announced(upload_progress'[j].status) <= Allowed(extr'.pages)]_vars

\* a PDF of more batches than the cap of 2 has been extracted with a job
\* identifier: two calls, the second batch the last one announced
C28_Witness ==
  /\ CapInEffect(extr.pages)
  /\ svc.PDF_MAX_BATCHES = 2
  /\ extr.pc = "done"
  /\ extr.result.kind = "text"
  /\ Len(extr.calls) = 2
  /\ extr.upload_id # 0
  /\ Announced(upload_progress[extr.upload_id].status) = 2


\* a batch call of the extraction is in flight
InFlight(x) == x.pc = "call"

\* C26: in the extraction of a large PDF with the identifier of an open
\* job, while the call of batch i is in flight the job's status is the
\* announcement of batch i; the announcement of batch i is published when
\* i - 1 calls have been made and all of them have returned; a call is in
\* flight only for the last batch called, and no batch is called twice
C26_BatchesSequentialAndAnnounced ==
  /\ [](LargePdf(extr.size_mb, extr.pages) =>
          /\ InFlight(extr) =>
               /\ Len(extr.calls) = extr.batch_num
               /\ Len(extr.extracted_parts) = extr.batch_num - 1
               /\ (extr.upload_id # 0 /\ upload_progress[extr.upload_id].present)
                    => Announced(upload_progress[extr.upload_id].status) = extr.batch_num
          /\ ~InFlight(extr) => Len(extr.extracted_parts) + (IF extr.failure = "none" THEN 0 ELSE 1)
                                  = Len(extr.calls)
          /\ \A a, b \in 1..Len(extr.calls) :
               a < b => extr.calls[a].page_end <= extr.calls[b].page_start)
  /\ [][\A j \in JobIds :
          ( /\ upload_progress'[j].status # upload_progress[j].status
            /\ Announced(upload_progress'[j].status) # 0 )
          => /\ ~InFlight(extr')
             /\ Len(extr'.calls) = Len(extr'.extracted_parts)
             /\ Announced(upload_progress'[j].status) = Len(extr'.calls) + 1
             /\ extr'.upload_id = j]_vars

\* the call of the third batch of a PDF extracted for an open job is in
\* flight, the third batch being the one announced
C26_Witness ==
  /\ InFlight(extr)
  /\ extr.upload_id # 0
  /\ upload_progress[extr.upload_id].present
  /\ extr.batch_num = 3
  /\ Announced(upload_progress[extr.upload_id].status) = 3


\* C29: with PDF_BATCHES_PER_MINUTE > 0, within one extraction of a large
\* PDF the calls of two consecutive batches, the first and the second
\* included, start at least 60 / PDF_BATCHES_PER_MINUTE seconds apart,
\* whatever last_batch_time held when the extraction began
C29_ConsecutiveCallsSpacedApart ==
  (PDF_BATCHES_PER_MINUTE > 0 /\ LargePdf(extr.size_mb, extr.pages))
  => \A k \in 2..Len(extr.calls) :
       extr.calls[k].at - extr.calls[k - 1].at >= MinInterval


\* ------------------------------------------------------------------------
\* rate_limit_batch called by several tasks (the extractions of several
\* documents, each between two of its batches)
\* ------------------------------------------------------------------------

\* task c calls rate_limit_batch: it returns at once or goes to sleep
ThrottleCall(c) ==
  /\ thr[c].pc = "out"
  /\ LET r == RateLimit(svc.last_batch_time, now)
     IN /\ thr' = [thr EXCEPT ![c] = IF r.sleep THEN [pc |-> "sleep", wake |-> r.wake]
                                     ELSE @]
        /\ svc' = [svc EXCEPT !.last_batch_time = r.last_batch_time]
  /\ UNCHANGED <<upload_progress, queues, extr, now, nonExtVars>>

\* the sleep of task c is over: line 51 and the return
ThrottleWake(c) ==
  /\ thr[c].pc = "sleep"
  /\ now >= thr[c].wake
  /\ svc' = [svc EXCEPT !.last_batch_time = now]
  /\ thr' = [thr EXCEPT ![c] = [pc |-> "out", wake |-> 0]]
  /\ UNCHANGED <<upload_progress, queues, extr, now, nonExtVars>>

ThrottleNext ==
  \/ \E c \in Callers : ThrottleCall(c)
  \/ \E c \in Callers : ThrottleWake(c)
  \/ Tick

SpecThrottle == Init /\ [][ThrottleNext]_vars

\* task c returns from rate_limit_batch in this step
ThrottleReturns(c) ==
  \/ thr[c].pc = "sleep" /\ thr'[c].pc = "out"
  \/ thr[c].pc = "out" /\ thr'[c].pc = "out" /\ svc' # svc

\* C20: with PDF_BATCHES_PER_MINUTE > 0, whichever tasks call it, a return
\* from rate_limit_batch comes at least 60 / PDF_BATCHES_PER_MINUTE seconds
\* after the return before it (the time last_batch_time holds)
C20_ReturnsSpacedApart ==
  [][\A c \in Callers :
       (PDF_BATCHES_PER_MINUTE > 0 /\ ThrottleReturns(c)) =>
         \/ svc.last_batch_time = None
         \/ now - svc.last_batch_time >= MinInterval]_vars

\* ------------------------------------------------------------------------
\* Search, chat (services/chat.py) and get_embeddings
\* (services/embeddings.py): one call at a time against a committed store
\* ------------------------------------------------------------------------
\* content[:500] of chat.py:172
PreviewLen == 500

\* limit=5 of chat.py:66
ChatTopK == 5

\* the queries and messages: empty, blank, and two words
QueryTexts == {<<>>, <<" ">>, <<" ", "\n">>, <<"a">>, <<" ", "b">>}

\* the inputs of a direct call of get_embeddings
EmbedInputs == {<<>>, << <<"a">> >>, << <<"a">>, <<"b">> >>}

\* a committed Chunk row
ChunkRow(id, document_id, filename, chunk_index, content) ==
  [id |-> id, document_id |-> document_id, filename |-> filename,
   chunk_index |-> chunk_index, content |-> content, embedding |-> EmbedVec(content)]

\* the stores searched: empty, one document of one chunk, of two chunks,
\* two documents, and three documents of six chunks
QueryStores ==
  LET a0 == ChunkRow(1, 1, <<"a", ".", "m", "d">>, 0, <<"a">>)
      a1 == ChunkRow(2, 1, <<"a", ".", "m", "d">>, 1, <<"b">>)
      b0 == ChunkRow(3, 2, <<"/", "b", ".", "m", "d">>, 0, <<"b">>)
      c0 == ChunkRow(4, 3, <<"c", ".", "m", "d">>, 0, <<"a">>)
      c1 == ChunkRow(5, 3, <<"c", ".", "m", "d">>, 1, <<"c">>)
      c2 == ChunkRow(6, 3, <<"c", ".", "m", "d">>, 2, <<"d">>)
  IN {{}, {a0}, {a0, a1}, {a0, a1, b0}, {a0, a1, b0, c0, c1, c2}}

\* the cosine distance of two vectors, as far as it orders them: nothing
\* is nearer to a vector than the vector itself
Distance(u, v) == IF u = v THEN 0 ELSE 1

\* the orders in which the store may return rows sorted by distance to the
\* query vector (rows at the same distance come in any order)
Ranked(rows, query_embedding) ==
  {r \in [1..Cardinality(rows) -> rows] :
     /\ \A i, j \in DOMAIN r : i # j => r[i] # r[j]
     /\ \A i, j \in DOMAIN r :
          i < j => Distance(r[i].embedding, query_embedding)
                     <= Distance(r[j].embedding, query_embedding)}

\* .limit(limit)
Limit(r, limit) == IF Len(r) > limit THEN SubSeq(r, 1, limit) ELSE r

\* content[:500] + "..." if len(content) > 500 else content
Preview(content) ==
  IF Len(content) > PreviewLen
  THEN Slice(content, 0, PreviewLen) \o <<".", ".", ".">>
  ELSE content

\* raises for every input, the empty one included
services_get_embeddingsMut(client, texts) ==
  IF ~client THEN "raise" ELSE IF texts = <<>> THEN "empty" ELSE "call"

\* get_embeddings of services/embeddings.py up to its await: it returns
\* [] for no texts, raises RuntimeError without a client, or sends the
\* texts to the embedding service
services_get_embeddings(client, texts) ==
  IF texts = <<>> THEN "empty" ELSE IF ~client THEN "raise" ELSE "call"

\* an HTTPException, or an exception the router answers with a 500
QryRaise(q, code, detail) ==
  [q EXCEPT !.pc = "done",
            !.result = [NoAnswer EXCEPT !.kind = "error", !.code = code, !.detail = detail]]

\* the call of get_embeddings(texts) by the task q, up to its await
EnterEmbed(q, texts) ==
  LET how == services_get_embeddings(emb.client, texts)
  IN IF how = "empty"
     THEN [q EXCEPT !.texts = texts, !.pc = "embedded", !.query_embedding = <<>>]
     ELSE IF how = "raise"
     THEN QryRaise([q EXCEPT !.texts = texts], 500, "Azure OpenAI client not initialized")
     ELSE [q EXCEPT !.texts = texts, !.pc = "embedding", !.log = Append(@, "embed")]

\* skips the check of the query
BeginSearchMut(query, limit) ==
  /\ qry.pc = "idle"
  /\ qry' = EnterEmbed([IdleQry EXCEPT !.op = "search", !.query = query, !.limit = limit],
                       <<query>>)
  /\ UNCHANGED <<emb, storeVars, ck, hubVars, pubVars, extVars, cliVars>>

\* search_documents(query, session, limit): lines 164-167 up to the await
\* inside get_embeddings
BeginSearch(query, limit) ==
  /\ qry.pc = "idle"
  /\ LET q == [IdleQry EXCEPT !.op = "search", !.query = query, !.limit = limit]
     IN qry' = IF Strip(query) = <<>>
               THEN QryRaise(q, 400, "Query cannot be empty")
               ELSE EnterEmbed(q, <<query>>)
  /\ UNCHANGED <<emb, storeVars, ck, hubVars, pubVars, extVars, cliVars>>

\* chat_with_documents(message, session, include_sources): lines 62-66 up
\* to the await inside get_embeddings
BeginChat(message, include_sources) ==
  /\ qry.pc = "idle"
  /\ LET q == [IdleQry EXCEPT !.op = "chat", !.query = message, !.limit = ChatTopK,
                              !.include_sources = include_sources]
     IN qry' = IF ~svc.claude_client
               THEN QryRaise(q, 500, "Claude API not configured")
               ELSE EnterEmbed(q, <<message>>)
  /\ UNCHANGED <<emb, storeVars, ck, hubVars, pubVars, extVars, cliVars>>

\* another caller awaits get_embeddings(texts)
BeginEmbed(texts) ==
  /\ qry.pc = "idle"
  /\ LET q == EnterEmbed([IdleQry EXCEPT !.op = "embed"], texts)
     IN qry' = IF q.pc = "embedded"
               THEN [q EXCEPT !.pc = "done", !.result = [NoAnswer EXCEPT !.kind = "vectors"]]
               ELSE q
  /\ UNCHANGED <<emb, storeVars, ck, hubVars, pubVars, extVars, cliVars>>

\* the response of chat.py:69-72
NothingIndexed ==
  [NoAnswer EXCEPT !.kind = "chat",
                   !.response = "No documents have been indexed yet. Upload some documents first."]

\* lines 84-89: the source entry of a chunk
Source(row) ==
  [filename |-> row.filename, chunk_index |-> row.chunk_index,
   source_type |-> IF row.filename # <<>> /\ row.filename[1] \in {"/", "\\"}
                   THEN "external" ELSE "vault"]

RECURSIVE SourcesMut(_, _)
\* a filename seen again replaces the ordinal of its entry
SourcesMut(chunks, sources) ==
  IF chunks = <<>> THEN sources
  ELSE SourcesMut(Tail(chunks),
                  IF \E i \in 1..Len(sources) : sources[i].filename = Head(chunks).filename
                  THEN [i \in 1..Len(sources) |->
                          IF sources[i].filename = Head(chunks).filename
                          THEN Source(Head(chunks)) ELSE sources[i]]
                  ELSE Append(sources, Source(Head(chunks))))

RECURSIVE Sources(_, _)
\* lines 76-89: one source per filename, in the order of the chunks
Sources(chunks, sources) ==
  IF chunks = <<>> THEN sources
  ELSE Sources(Tail(chunks),
               IF \E i \in 1..Len(sources) : sources[i].filename = Head(chunks).filename
               THEN sources
               ELSE Append(sources, Source(Head(chunks))))

\* lines 169-176: the rows of a search result
SearchItems(chunks) ==
  [i \in 1..Len(chunks) |->
     [filename |-> chunks[i].filename, content |-> Preview(chunks[i].content),
      chunk_index |-> chunks[i].chunk_index]]

\* lines 78-79, 91: the labelled blocks of the context, in the order of
\* the chunks
Context(chunks) ==
  [i \in 1..Len(chunks) |-> [source |-> chunks[i].filename, content |-> chunks[i].content]]

\* calls the generation service whatever the search gave
AfterSearchMut(q, chunks) ==
  IF q.op = "search"
  THEN [q EXCEPT !.chunks = chunks, !.pc = "done",
                 !.result = [NoAnswer EXCEPT !.kind = "list",
                                             !.items = SearchItems(chunks)]]
  ELSE [q EXCEPT !.chunks = chunks, !.pc = "generate", !.log = Append(@, "generate"),
                 !.request = [context |-> Context(chunks), question |-> q.query]]

\* what follows search_similar_chunks: search_documents returns its list
\* (lines 169-176); chat_with_documents returns the canned answer when
\* there are no chunks (lines 68-72) and calls the generation service
\* otherwise (lines 74-135)
AfterSearch(q, chunks) ==
  IF q.op = "search"
  THEN [q EXCEPT !.chunks = chunks, !.pc = "done",
                 !.result = [NoAnswer EXCEPT !.kind = "list",
                                             !.items = SearchItems(chunks)]]
  ELSE IF chunks = <<>>
  THEN [q EXCEPT !.chunks = chunks, !.pc = "done", !.result = NothingIndexed]
  ELSE [q EXCEPT !.chunks = chunks, !.pc = "generate", !.log = Append(@, "generate"),
                 !.request = [context |-> Context(chunks), question |-> q.query]]

\* the embedding service answers (embeddings.py:61-63), or the call
\* raises; search_similar_chunks then sends its query to the store
EmbedReturn ==
  /\ qry.pc = "embedding"
  /\ \E ok \in BOOLEAN :
       qry' = IF ~ok THEN QryRaise(qry, 500, "embedding call failed")
              ELSE IF qry.op = "embed"
              THEN [qry EXCEPT !.pc = "done",
                               !.result = [NoAnswer EXCEPT !.kind = "vectors",
                                                           !.items = get_embeddings(qry.texts)]]
              ELSE [qry EXCEPT !.pc = "select", !.log = Append(@, "select"),
                               !.query_embedding = get_embeddings(qry.texts)[1]]
  /\ UNCHANGED <<emb, storeVars, ck, hubVars, pubVars, extVars, cliVars>>

\* the store answers the query of chat.py:36-40, or the query fails; a
\* search returns, a chat returns the canned answer or calls the
\* generation service
SelectReturn ==
  /\ qry.pc = "select"
  /\ \/ qry' = QryRaise(qry, 500, "database error")
     \/ \E r \in Ranked(chunkRows, qry.query_embedding) :
          qry' = AfterSearch(qry, Limit(r, qry.limit))
  /\ UNCHANGED <<emb, storeVars, ck, hubVars, pubVars, extVars, cliVars>>

\* the generation service answers (lines 137-140) or the call raises
\* (lines 141-145)
GenerateReturn ==
  /\ qry.pc = "generate"
  /\ \E ok \in BOOLEAN :
       qry' = IF ~ok THEN QryRaise(qry, 500, "Chat failed")
              ELSE [qry EXCEPT
                      !.pc = "done",
                      !.result = [NoAnswer EXCEPT
                                    !.kind = "chat", !.response = "answer",
                                    !.sources = IF qry.include_sources
                                                THEN Sources(qry.chunks, <<>>)
                                                ELSE <<>>]]
  /\ UNCHANGED <<emb, storeVars, ck, hubVars, pubVars, extVars, cliVars>>

\* the caller has the result
QryFinish ==
  /\ qry.pc = "done"
  /\ qry' = IdleQry
  /\ UNCHANGED <<emb, storeVars, ck, hubVars, pubVars, extVars, cliVars>>

\* a server with or without a Claude client and with or without an
\* embedding client, over one of the stores
QueryInit ==
  /\ docs = {}
  /\ chunkRows \in QueryStores
  /\ docSeq = 0
  /\ chunkSeq = 0
  /\ req = [p \in Procs |-> IdleReq]
  /\ nreq = 0
  /\ ck = CkIdle
  /\ HubInit
  /\ extr = IdleExt
  /\ thr = [c \in Callers |-> [pc |-> "out", wake |-> 0]]
  /\ svc \in {[claude_client |-> c, last_batch_time |-> None, PDF_MAX_BATCHES |-> None] :
                c \in BOOLEAN}
  /\ now = 0
  /\ qry = IdleQry
  /\ emb \in {[client |-> c] : c \in BOOLEAN}
  /\ CliInit

QueryNext ==
  \/ \E query \in QueryTexts, limit \in 1..MaxLimit : BeginSearch(query, limit)
  \/ \E message \in QueryTexts, include_sources \in BOOLEAN : BeginChat(message, include_sources)
  \/ \E texts \in EmbedInputs : BeginEmbed(texts)
  \/ EmbedReturn
  \/ SelectReturn
  \/ GenerateReturn
  \/ QryFinish

SpecQuery == QueryInit /\ [][QueryNext]_vars

\* empty or whitespace only
Blank(t) == \A i \in 1..Len(t) : t[i] \in Whitespace

\* the calls a search or chat makes outside the process
OutsideCalls == {"embed", "select", "generate"}

\* C21: a search whose query is empty or whitespace only ends with a 400
\* error, and no embedding call and no store query has been made for it
C21_BlankQueryRejectedFirst ==
  (qry.op = "search" /\ Blank(qry.query))
  => /\ qry.pc = "done"
     /\ qry.result.kind = "error"
     /\ qry.result.code = 400
     /\ \A i \in 1..Len(qry.log) : qry.log[i] \notin OutsideCalls

\* a search for a query of a blank and a newline has been rejected, on a
\* server whose embedding client and store would have answered
C21_Witness ==
  /\ qry.op = "search"
  /\ qry.query = <<" ", "\n">>
  /\ qry.pc = "done"
  /\ qry.result.code = 400
  /\ emb.client
  /\ chunkRows # {}

\* C22: when the store that holds no chunk answers the query of a search
\* with a non-blank query, the search returns the empty list; when it
\* answers the query of a chat, the chat returns the canned answer with no
\* sources; and no chat over the empty store calls the generation service
C22_EmptyStoreAnswers ==
  /\ [](chunkRows = {} =>
          /\ qry.pc # "generate"
          /\ \A i \in 1..Len(qry.log) : qry.log[i] # "generate")
  /\ [][( /\ chunkRows = {}
          /\ qry.pc = "select"
          /\ qry'.pc = "done"
          /\ qry'.result.detail # "database error" )
        => /\ qry.op = "search" =>
                /\ ~Blank(qry.query)
                /\ qry'.result.kind = "list"
                /\ qry'.result.items = <<>>
           /\ qry.op = "chat" =>
                /\ qry'.result.kind = "chat"
                /\ qry'.result.response =
                     "No documents have been indexed yet. Upload some documents first."
                /\ qry'.result.sources = <<>>]_vars

\* a chat that asked for sources has been answered over the empty store
\* with the canned answer
C22_Witness ==
  /\ chunkRows = {}
  /\ qry.op = "chat"
  /\ qry.include_sources
  /\ qry.pc = "done"
  /\ qry.result.kind = "chat"
  /\ qry.result.sources = <<>>
  /\ qry.log = <<"embed", "select">>

\* get_embeddings has been called in this task
EmbedCalled == qry.pc # "idle" /\ (qry.op = "embed" \/ qry.texts # <<>>)

\* C23 as stated: without an embedding client get_embeddings raises for
\* every input sequence and does not call the embedding service
C23_UninitializedAlwaysFails ==
  (~emb.client /\ EmbedCalled)
  => /\ qry.pc = "done"
     /\ qry.result.kind = "error"
     /\ \A i \in 1..Len(qry.log) : qry.log[i] # "embed"

\* C23 amended: without an embedding client get_embeddings does not call
\* the embedding service; it raises for every non-empty input sequence and
\* returns the empty sequence for the empty one
C23_UninitializedFailsUnlessEmpty ==
  (~emb.client /\ EmbedCalled)
  => /\ qry.pc = "done"
     /\ \A i \in 1..Len(qry.log) : qry.log[i] # "embed"
     /\ IF qry.texts = <<>>
        THEN qry.result.kind = "vectors" /\ qry.result.items = <<>>
        ELSE /\ qry.result.kind = "error"
             /\ qry.result.code = 500
             /\ qry.result.detail = "Azure OpenAI client not initialized"

\* get_embeddings has raised for two texts on a server without an
\* embedding client
C23_Witness ==
  /\ ~emb.client
  /\ qry.op = "embed"
  /\ Len(qry.texts) = 2
  /\ qry.pc = "done"
  /\ qry.result.kind = "error"

\* the upload of slot p has committed a Document that is still in the store
Stored(p) ==
  /\ req[p].kind = "upload"
  /\ req[p].pc = "done"
  /\ req[p].result.status \in {"created", "updated"}
  /\ req[p].doc \in docs

\* C24: in every committed store state the Chunks of each Document carry
\* the ordinals 0..chunk_count-1, each once; and the Chunk with ordinal i
\* of a Document an upload has just stored holds the i-th span chunk_text
\* gives for the upload's text and the i-th vector its embedding call
\* returned
C24_OrdinalsSpansVectors ==
  /\ \A d \in docs :
       /\ Cardinality(ChunksOf(d.id)) = d.chunk_count
       /\ {c.chunk_index : c \in ChunksOf(d.id)} = 0..(d.chunk_count - 1)
  /\ \A p \in Procs :
       Stored(p) =>
         LET spans == chunk_text(req[p].text, CHUNK_SIZE, CHUNK_OVERLAP)
         IN /\ req[p].doc.chunk_count = Len(spans)
            /\ Len(req[p].embeddings) = Len(spans)
            /\ \A c \in ChunksOf(req[p].doc.id) :
                 /\ c.content = spans[c.chunk_index + 1]
                 /\ c.embedding = req[p].embeddings[c.chunk_index + 1]

\* an upload has stored a Document of two chunks whose vectors differ
C24_Witness ==
  \E p \in Procs :
    /\ Stored(p)
    /\ req[p].doc.chunk_count = 2
    /\ Cardinality(ChunksOf(req[p].doc.id)) = 2
    /\ req[p].embeddings[1] # req[p].embeddings[2]

\* C25: in every committed store state every Chunk's document_id is the
\* id of a Document in the store that has the Chunk's filename
C25_NoOrphanChunks ==
  \A c \in chunkRows :
    \E d \in docs : d.id = c.document_id /\ d.filename = c.filename

\* the locals of an upload of filename f with body content, as they are
\* when the upload has committed Document id (upload_document, lines
\* 355-413)
CommittedUpload(f, content, id) ==
  LET text == Decode(content.bytes)
      chunks == chunk_text(text, CHUNK_SIZE, CHUNK_OVERLAP)
      r == [IdleReq EXCEPT !.kind = "upload", !.filename = f, !.content = content,
                           !.file_size = content.size,
                           !.file_hash = compute_file_hash(content),
                           !.text = text, !.chunks = chunks,
                           !.embeddings = get_embeddings(chunks)]
  IN [r EXCEPT !.doc = NewDocument(r, id)]

\* the uploads of a text file that store a Document in the empty store
FirstUploads ==
  { CommittedUpload(f, content, 1) :
      f \in {g \in Filenames : Lower(PathSuffix(g)) \in TextExtensions},
      content \in {c \in Payloads : /\ c.size <= MAX_FILE_SIZE_MB * 1024 * 1024
                                     /\ Strip(Decode(c.bytes)) # <<>>} }

\* the server when one text file has been uploaded and no request is under
\* way: the store holds the file's Document and Chunks
PopulatedInit ==
  /\ \E r \in FirstUploads :
       /\ docs = {r.doc}
       /\ chunkRows = NewChunks(r, 1)
       /\ chunkSeq = Cardinality(NewChunks(r, 1))
  /\ docSeq = 1
  /\ req = [p \in Procs |-> IdleReq]
  /\ nreq = 0
  /\ ck = CkIdle
  /\ HubInit
  /\ ExtInit
  /\ QryInit
  /\ CliInit

\* the requests of Spec, on a store that already holds a Document
SpecPopulated == PopulatedInit /\ [][Next]_vars

\* on a store that held the Document of a key, a delete of the key has
\* committed while a re-upload of the key was under way, and the store
\* holds the chunks of the Document the re-upload stored
C25_Witness ==
  \E p \in Procs : \E q \in Procs \ {p} :
    /\ req[p].kind = "delete"
    /\ req[q].kind = "upload"
    /\ req[p].filename = req[q].filename
    /\ req[p].result.status = "deleted"
    /\ req[q].existing_doc # NoDoc
    /\ req[p].doc = req[q].existing_doc
    /\ Stored(q)
    /\ ChunksOf(req[q].doc.id) # {}

\* ------------------------------------------------------------------------
\* chunk_text on windows that hold two sentence separators
\* ------------------------------------------------------------------------
\* texts whose first window holds two sentence separators past its
\* midpoint: letters, a separator, a separator, a letter
TwoMarkerTexts ==
  { Run(MaxRun + 1) \o SentenceSeps[i] \o SentenceSeps[j] \o Run(1) :
      i \in 1..Len(SentenceSeps), j \in 1..Len(SentenceSeps) }

\* a call of chunk_text on such a text, with the chunk size that puts both
\* separators in the second half of the first window
CutInit ==
  /\ StoreInit
  /\ HubInit
  /\ ExtInit
  /\ QryInit
  /\ CliInit
  /\ \E t \in TwoMarkerTexts, O \in 0..MaxOverlap :
       /\ O < MaxRun + 5
       /\ ck = [CkIdle EXCEPT !.pc = "call", !.text = t, !.chunk_size = MaxRun + 5,
                              !.overlap = O]

SpecCut == CutInit /\ [][ChunkNext]_vars

\* the positions just after the sentence separators that begin in
\* text[start:end] past the midpoint of the window
MarkerEnds(text, chunk_size, start, end) ==
  { RFind(text, SentenceSeps[k], start, end) + Len(SentenceSeps[k]) :
      k \in {i \in 1..Len(SentenceSeps) :
               RFind(text, SentenceSeps[i], start, end) > start + (chunk_size \div 2)} }

\* the greatest element of a non-empty set of numbers
Greatest(S) == CHOOSE x \in S : \A y \in S : y <= x

\* C31: when the tentative end of an iteration lies before the end of the
\* text and its window has no paragraph break past the midpoint, the
\* iteration cuts just after the rightmost sentence separator, over all
\* five, that lies past the midpoint, and at start + chunk_size when there
\* is none
C31_CutsAfterRightmostMarker ==
  [][( /\ ck.pc = "loop"
       /\ ck'.iters = ck.iters + 1
       /\ ck.start + ck.chunk_size < Len(ck.text)
       /\ ~(RFind(ck.text, <<"\n", "\n">>, ck.start, ck.start + ck.chunk_size)
              > ck.start + (ck.chunk_size \div 2)) )
     => LET ends == MarkerEnds(ck.text, ck.chunk_size, ck.start, ck.start + ck.chunk_size)
        IN ck'.end = IF ends = {} THEN ck.start + ck.chunk_size ELSE Greatest(ends)]_vars

\* ------------------------------------------------------------------------
\* send_progress interleaved with subscribe, unsubscribe, open and close
\* ------------------------------------------------------------------------
\* how many puts of a publish completed on channel c
Deliveries(x, c) == Cardinality({k \in 1..Len(x.got) : x.got[k] = c})

\* C32: when a publish returns, every channel that was registered for its
\* job from the call to the return has received its item exactly once; and
\* no step of a publish changes the channel list of an entry
C32_PublishAtomicWithRegistry ==
  /\ [][\A p \in Pubs :
          (pub[p].pc = "yield" /\ pub'[p].pc = "idle")
          => \A c \in pub[p].stay : Deliveries(pub[p], c) = 1]_vars
  /\ [][(\E p \in Pubs : pub'[p].pc # pub[p].pc \/ pub'[p].i # pub[p].i)
        => \A j \in HubIds :
             upload_progress[j].present
             => /\ upload_progress'[j].present
                /\ upload_progress'[j].queues = upload_progress[j].queues]_vars

\* C33: while an entry holds a terminal status and stays open, no step
\* changes its status, and no step adds to a registered channel an item
\* other than that terminal status
C33_TerminalStatusIsFinal ==
  [][\A j \in HubIds :
       ( /\ upload_progress[j].present
         /\ Terminal(upload_progress[j].status)
         /\ upload_progress'[j].present )
       => /\ upload_progress'[j].status = upload_progress[j].status
          /\ \A c \in Registered(j) :
               Len(queues'[c]) > Len(queues[c])
               => queues'[c][Len(queues'[c])].status = upload_progress[j].status]_vars

\* C35: a publish to an identifier that has no entry leaves the registry
\* without an entry for it, and every entry, every queue and the
\* publishing task as they were: the call returns at once
C35_PublishToUnknownIsNoOp ==
  [][( /\ hop'.n = hop.n + 1
       /\ hop'.op = "publish"
       /\ ~upload_progress[hop'.id].present )
     => /\ upload_progress' = upload_progress
        /\ queues' = queues
        /\ pub' = pub]_vars

\* the last call published to an identifier that has no entry, while a
\* subscriber of another job holds an item
C35_Witness ==
  /\ hop.op = "publish"
  /\ hop.n = 2
  /\ ~upload_progress[hop.id].present
  /\ \E k \in HubIds \ {hop.id} :
       /\ upload_progress[k].present
       /\ \E c \in Registered(k) : queues[c] # <<>>

\* ------------------------------------------------------------------------
\* The scheduled cleanup of a job's entry
\* ------------------------------------------------------------------------
\* the pipeline of job j takes a step
IngestRun(j) ==
  \/ IngestStep(j)
  \/ IngestUnchanged(j)
  \/ IngestComplete(j)
  \/ IngestRaise(j)
  \/ IngestRespond(j)

\* the subscriber followed while the jobs run
LiveChans == {1}

\* the steps of the jobs and of that subscriber
LiveNext ==
  \/ \E c \in LiveChans, j \in JobIds : Subscribe(c, j)
  \/ \E c \in LiveChans, j \in JobIds : Unsubscribe(c, j)
  \/ \E c \in LiveChans : Dequeue(c)
  \/ \E j \in JobIds : IngestOpen(j)
  \/ \E j \in JobIds : IngestRun(j)
  \/ \E j \in JobIds : Cleanup(j)

\* the jobs and the subscriber when the event loop keeps running: a
\* pipeline that can take a step takes one, and the cleanup timer of a job
\* that has returned fires
SpecJobLive ==
  /\ Init
  /\ [][LiveNext]_vars
  /\ \A j \in JobIds : WF_vars(IngestRun(j)) /\ WF_vars(Cleanup(j))

FirstOf(chunks, f) ==
  CHOOSE i \in 1..Len(chunks) :
    /\ chunks[i].filename = f
    /\ \A k \in 1..(i - 1) : chunks[k].filename # f

\* C36: a chat answered by the generation service over the ranked top-5
\* chunks (the nearest stored chunks, nearest first) returns, when sources are
\* requested, one source per filename of those chunks, in the order in which the filenames first appear, each
\* with the ordinal of the filename's first (best-ranked) chunk; when they
\* are not requested it returns no source; and the request sent to the
\* generation service is built from the chunks and the message alone
C36_SourcesDedupedInRankOrder ==
  (qry.op = "chat" /\ qry.pc = "done" /\ qry.result.kind = "chat" /\ qry.chunks # <<>>)
  => LET src == qry.result.sources
         ch == qry.chunks
         names == {ch[i].filename : i \in 1..Len(ch)}
     IN /\ Len(ch) <= ChatTopK
        /\ Len(ch) = Cardinality(chunkRows) \/ Len(ch) = ChatTopK
        /\ \A i \in 1..Len(ch) : ch[i] \in chunkRows
        /\ \A i, k \in 1..Len(ch) : i # k => ch[i] # ch[k]
        /\ \A i, k \in 1..Len(ch) :
             i < k => Distance(ch[i].embedding, qry.query_embedding)
                        <= Distance(ch[k].embedding, qry.query_embedding)
        /\ \A row \in chunkRows :
             (\A i \in 1..Len(ch) : ch[i] # row)
             => \A i \in 1..Len(ch) :
                  Distance(ch[i].embedding, qry.query_embedding)
                    <= Distance(row.embedding, qry.query_embedding)
        /\ qry.request = [context |-> [i \in 1..Len(ch) |->
                                         [source |-> ch[i].filename,
                                          content |-> ch[i].content]],
                          question |-> qry.query]
        /\ ~qry.include_sources => src = <<>>
        /\ qry.include_sources =>
             /\ {src[k].filename : k \in 1..Len(src)} = names
             /\ Len(src) = Cardinality(names)
             /\ \A k \in 1..Len(src) :
                  src[k].chunk_index = ch[FirstOf(ch, src[k].filename)].chunk_index
             /\ \A k, l \in 1..Len(src) :
                  k < l => FirstOf(ch, src[k].filename) < FirstOf(ch, src[l].filename)

\* a chat over six chunks has been answered with sources: five chunks
\* were used, a filename occurs twice among them with its later-ranked
\* chunk carrying another ordinal, and there are fewer sources than chunks
C36_Witness ==
  /\ qry.op = "chat"
  /\ qry.pc = "done"
  /\ qry.result.kind = "chat"
  /\ qry.include_sources
  /\ Cardinality(chunkRows) > ChatTopK
  /\ Len(qry.chunks) = ChatTopK
  /\ Len(qry.result.sources) < Len(qry.chunks)
  /\ \E i, k \in 1..Len(qry.chunks) :
       /\ i < k
       /\ qry.chunks[i].filename = qry.chunks[k].filename
       /\ qry.chunks[i].chunk_index > qry.chunks[k].chunk_index

\* ------------------------------------------------------------------------
\* services/extraction.py: extract_text_from_image
\* ------------------------------------------------------------------------
\* line 307: Claude's limit for images, 5 * 1024 * 1024 bytes
MAX_IMAGE_SIZE == 5242880

\* the lengths followed: one byte under the ceiling, the ceiling, and up
\* to MaxExcess bytes over it
ImageLens == {MAX_IMAGE_SIZE - 1, MAX_IMAGE_SIZE} \cup {MAX_IMAGE_SIZE + k : k \in 1..MaxExcess}

\* the call raises
ImgRaise(i, kind, code, detail) ==
  [i EXCEPT !.pc = "done", !.result = [kind |-> kind, code |-> code, detail |-> detail]]

\* scale > 0.3 on doubles: after the first `scale -= 0.1` every value lies
\* just above the double of its decimal (0.30000000000000016 > 0.3)
ScaleOverFloor(scale) == scale.tenths > 3 \/ (scale.tenths = 3 /\ scale.above)

\* lines 343-345, 351-357: what follows the scaling loop, the 400 when the
\* content is still too large left out
AfterScaleMut(i) == [i EXCEPT !.pc = "send"]

\* lines 343-345, 351-357: what follows the scaling loop
AfterScale(i) ==
  IF i.content > MAX_IMAGE_SIZE
  THEN ImgRaise(i, "http", 400, "Image too large even after resizing")
  ELSE [i EXCEPT !.pc = "send"]

\* lines 288-308: the client check, then the size test
ImgEnter ==
  /\ img.pc = "call"
  /\ img' = IF ~svc.claude_client THEN ImgRaise(img, "http", 500, "Claude API not configured")
            ELSE IF img.content > MAX_IMAGE_SIZE THEN [img EXCEPT !.pc = "import"]
            ELSE [img EXCEPT !.pc = "send"]
  /\ UNCHANGED <<syn, storeVars, ck, hubVars, pubVars, extVars, qryVars>>

\* lines 310-323, 353-357: the import of PIL fails (400), or the image is
\* opened and converted, or the library raises on it
ImgOpen ==
  /\ img.pc = "import"
  /\ \/ /\ ~img.pillow
        /\ img' = ImgRaise(img, "http", 400, "Image too large, install Pillow")
     \/ /\ img.pillow
        /\ \/ img' = [img EXCEPT !.pc = "quality", !.quality = 85]
           \/ img' = ImgRaise(img, "exception", 0, "cannot identify image file")
  /\ UNCHANGED <<syn, storeVars, ck, hubVars, pubVars, extVars, qryVars>>

\* lines 326-337: one pass of `while quality > 20`, the save giving any
\* length; the loop left when the test fails
ImgQuality ==
  /\ img.pc = "quality"
  /\ IF img.quality > 20
     THEN \/ \E resized_content \in ImageLens :
               img' = IF resized_content <= MAX_IMAGE_SIZE
                      THEN [img EXCEPT !.content = resized_content,
                                       !.media_type = "image/jpeg",
                                       !.qsaves = @ + 1, !.pc = "resized"]
                      ELSE [img EXCEPT !.quality = @ - 10, !.qsaves = @ + 1]
          \/ img' = ImgRaise(img, "exception", 0, "cannot write image")
     ELSE img' = [img EXCEPT !.pc = "resized"]
  /\ UNCHANGED <<syn, storeVars, ck, hubVars, pubVars, extVars, qryVars>>

\* lines 339-341: the content is still too large, so the dimensions are
\* reduced, else it is sent
ImgResized ==
  /\ img.pc = "resized"
  /\ img' = IF img.content > MAX_IMAGE_SIZE
            THEN [img EXCEPT !.pc = "scale", !.scale = [tenths |-> 8, above |-> FALSE]]
            ELSE [img EXCEPT !.pc = "send"]
  /\ UNCHANGED <<syn, storeVars, ck, hubVars, pubVars, extVars, qryVars>>

\* lines 342-357: one pass of `while scale > 0.3 and len(content) >
\* MAX_IMAGE_SIZE`, the save at the reduced dimensions giving any length;
\* the loop left when the test fails
ImgScale ==
  /\ img.pc = "scale"
  /\ IF ScaleOverFloor(img.scale) /\ img.content > MAX_IMAGE_SIZE
     THEN \/ \E resized_content \in ImageLens :
               img' = [img EXCEPT !.content = resized_content,
                                  !.scale = [tenths |-> @.tenths - 1, above |-> TRUE],
                                  !.ssaves = @ + 1]
          \/ img' = ImgRaise(img, "exception", 0, "cannot write image")
     ELSE img' = AfterScale(img)
  /\ UNCHANGED <<syn, storeVars, ck, hubVars, pubVars, extVars, qryVars>>

\* lines 359-410: the content is encoded and handed to the vision
\* service, which answers or fails
ImgSend ==
  /\ img.pc = "send"
  /\ \E kind \in {"text", "service error"} :
       img' = [img EXCEPT !.pc = "done", !.sent = img.content,
                          !.result = [kind |-> kind, code |-> 0, detail |-> ""]]
  /\ UNCHANGED <<syn, storeVars, ck, hubVars, pubVars, extVars, qryVars>>

\* an image of any followed length arrives, with or without the client
\* configured and PIL installed
ImageInit ==
  /\ StoreInit
  /\ ck = CkIdle
  /\ HubInit
  /\ extr = IdleExt
  /\ thr = [c \in Callers |-> [pc |-> "out", wake |-> 0]]
  /\ svc \in {[claude_client |-> c, last_batch_time |-> None, PDF_MAX_BATCHES |-> None] :
                c \in BOOLEAN}
  /\ now = 0
  /\ QryInit
  /\ syn = IdleSyn
  /\ \E n \in ImageLens, pil \in BOOLEAN :
       img = [IdleImg EXCEPT !.pc = "call", !.given = n, !.content = n, !.pillow = pil]

ImageNext ==
  \/ ImgEnter
  \/ ImgOpen
  \/ ImgQuality
  \/ ImgResized
  \/ ImgScale
  \/ ImgSend

SpecImage == ImageInit /\ [][ImageNext]_vars

\* quality and scale have reached their floors
FloorsReached(i) == i.quality <= 20 /\ ~ScaleOverFloor(i.scale) /\ i.ssaves > 0

debounce_seconds == 2

Contents == 1..MaxContents

\* lines 44-50: the sha256 of the file, "" (here 0) when it cannot be read
compute_hash(content) == IF content = None THEN 0 ELSE 100 + content

\* lines 134-159: the type each callback records; a move records a delete
\* for its source path and a create for its destination path
EventType(fs) ==
  CASE fs = "created" -> "create"
    [] fs = "modified" -> "modify"
    [] fs = "deleted" -> "delete"
    [] fs = "moved_from" -> "delete"
    [] fs = "moved_to" -> "create"

\* the file is written, removed or moved and the observer queues the event
FsOp ==
  /\ syn.nfs < MaxEvents
  /\ \/ /\ syn.disk = None
        /\ \E c \in Contents, fs \in {"created", "moved_to"} :
             syn' = [syn EXCEPT !.disk = c, !.fsq = Append(@, fs), !.nfs = @ + 1]
     \/ /\ syn.disk # None
        /\ \E c \in Contents :
             syn' = [syn EXCEPT !.disk = c, !.fsq = Append(@, "modified"), !.nfs = @ + 1]
     \/ /\ syn.disk # None
        /\ \E fs \in {"deleted", "moved_from"} :
             syn' = [syn EXCEPT !.disk = None, !.fsq = Append(@, fs), !.nfs = @ + 1]
  /\ UNCHANGED <<img, storeVars, ck, hubVars, pubVars, extVars, qryVars>>

\* lines 134-159, watcher thread: the callback evaluates
\* (time.time(), type)
WatchCall ==
  /\ syn.wpc = "idle"
  /\ syn.fsq # <<>>
  /\ syn' = [syn EXCEPT !.wpc = "store", !.fsq = Tail(@), !.nrec = @ + 1,
                        !.wstamp = [timestamp |-> syn.clock,
                                    event_type |-> EventType(Head(syn.fsq)),
                                    n |-> syn.nrec + 1]]
  /\ UNCHANGED <<img, storeVars, ck, hubVars, pubVars, extVars, qryVars>>

\* lines 138, 144, 150, 157, 159, watcher thread: the tuple is stored
\* under the path
WatchStore ==
  /\ syn.wpc = "store"
  /\ syn' = [syn EXCEPT !.wpc = "idle", !.pending_events = syn.wstamp,
                        !.recorded = syn.wstamp]
  /\ UNCHANGED <<img, storeVars, ck, hubVars, pubVars, extVars, qryVars>>

\* lines 120-123, main loop: now is read and list(pending_events.items())
\* is taken
ProcBegin ==
  /\ syn.pc = "sleep"
  /\ syn' = [syn EXCEPT !.pc = "test", !.now = syn.clock, !.to_process = <<>>,
                        !.snapshot = IF syn.pending_events = NoEvent THEN <<>>
                                     ELSE <<syn.pending_events>>]
  /\ UNCHANGED <<img, storeVars, ck, hubVars, pubVars, extVars, qryVars>>

\* lines 123-125: the debounce test on the snapshot's tuple, and the
\* append to to_process
ProcTest ==
  /\ syn.pc = "test"
  /\ syn' = IF syn.snapshot = <<>> THEN [syn EXCEPT !.pc = "dispatch"]
            ELSE IF syn.now - syn.snapshot[1].timestamp >= debounce_seconds
            THEN [syn EXCEPT !.pc = "del", !.snapshot = <<>>,
                             !.to_process = Append(@, syn.snapshot[1])]
            ELSE [syn EXCEPT !.pc = "dispatch", !.snapshot = <<>>]
  /\ UNCHANGED <<img, storeVars, ck, hubVars, pubVars, extVars, qryVars>>

\* line 126: del self.pending_events[path], whatever is stored there now
ProcDel ==
  /\ syn.pc = "del"
  /\ syn' = [syn EXCEPT !.pc = "dispatch", !.pending_events = NoEvent]
  /\ UNCHANGED <<img, storeVars, ck, hubVars, pubVars, extVars, qryVars>>

\* a request as it is issued: its type, the time, the event it was
\* queued for and the event last recorded for the path
Request(s, type) ==
  [type |-> type, at |-> s.clock, content |-> s.disk,
   for |-> s.to_process[1], recorded |-> s.recorded]

\* lines 57-60: _upload_file finds the hash it has cached
SkipUnchanged(s) ==
  [s EXCEPT !.pc = "sleep", !.to_process = <<>>,
            !.skipped = [n |-> @.n + 1, content |-> s.disk, last_ok |-> s.last_ok,
                         deleted_since |-> s.deleted_since]]

\* lines 128-132, 52-76, 92-105: the queued event is handled: a delete
\* request, or for a file that exists an upload request unless its hash
\* is the cached one
ProcDispatch ==
  /\ syn.pc = "dispatch"
  /\ syn' = IF syn.to_process = <<>> THEN [syn EXCEPT !.pc = "sleep"]
            ELSE IF syn.to_process[1].event_type = "delete"
            THEN [syn EXCEPT !.pc = "deleting", !.log = Append(@, Request(syn, "delete"))]
            ELSE IF syn.disk = None THEN [syn EXCEPT !.pc = "sleep", !.to_process = <<>>]
            ELSE IF compute_hash(syn.disk) = syn.file_hashes THEN SkipUnchanged(syn)
            ELSE [syn EXCEPT !.pc = "uploading", !.new_hash = compute_hash(syn.disk),
                             !.content = syn.disk,
                             !.log = Append(@, Request(syn, "upload"))]
  /\ UNCHANGED <<img, storeVars, ck, hubVars, pubVars, extVars, qryVars>>

\* the answers followed: 200, 401, 404, 500, and 0 for a request that
\* raises (connection error, timeout)
UploadAnswers == {200, 401, 500, 0}

DeleteAnswers == {200, 404, 500, 0}

\* lines 107-116: the cached hash is dropped when the delete was answered
\* 200
AfterDelete(s, status_code) ==
  [s EXCEPT !.pc = "sleep", !.to_process = <<>>, !.deleted_since = TRUE,
            !.file_hashes = IF status_code = 200 THEN None ELSE @]

\* lines 78-90: the hash is cached when the upload was answered 200
UploadReply ==
  /\ syn.pc = "uploading"
  /\ \E status_code \in UploadAnswers :
       syn' = IF status_code = 200
              THEN [syn EXCEPT !.pc = "sleep", !.to_process = <<>>,
                               !.file_hashes = syn.new_hash,
                               !.last_ok = syn.content, !.deleted_since = FALSE]
              ELSE [syn EXCEPT !.pc = "sleep", !.to_process = <<>>]
  /\ UNCHANGED <<img, storeVars, ck, hubVars, pubVars, extVars, qryVars>>

\* lines 101-116: the answer to the delete request
DeleteReply ==
  /\ syn.pc = "deleting"
  /\ \E status_code \in DeleteAnswers : syn' = AfterDelete(syn, status_code)
  /\ UNCHANGED <<img, storeVars, ck, hubVars, pubVars, extVars, qryVars>>

\* a second passes
SyncTick ==
  /\ syn.clock < MaxClock
  /\ syn' = [syn EXCEPT !.clock = @ + 1]
  /\ UNCHANGED <<img, storeVars, ck, hubVars, pubVars, extVars, qryVars>>

\* lines 230-245: the handler when the observer starts, without an
\* initial sync or after one that uploaded the file that was there
SyncInit ==
  /\ StoreInit
  /\ ck = CkIdle
  /\ HubInit
  /\ ExtInit
  /\ QryInit
  /\ img = IdleImg
  /\ \E c \in Contents \cup {None}, synced \in BOOLEAN :
       syn = IF synced /\ c # None
             THEN [IdleSyn EXCEPT !.disk = c, !.file_hashes = compute_hash(c), !.last_ok = c]
             ELSE [IdleSyn EXCEPT !.disk = c]

SyncNext ==
  \/ FsOp
  \/ WatchCall
  \/ WatchStore
  \/ ProcBegin
  \/ ProcTest
  \/ ProcDel
  \/ ProcDispatch
  \/ UploadReply
  \/ DeleteReply
  \/ SyncTick

SpecSync == SyncInit /\ [][SyncNext]_vars

\* the delete requests issued for the event numbered n
DeleteRequestsFor(n) ==
  {i \in 1..Len(syn.log) : syn.log[i].type = "delete" /\ syn.log[i].for.n = n}

\* C38: a deletion that is the most recent filesystem event of the path
\* and has been recorded by the watcher is not lost: until a delete
\* request is issued for it, the handler holds it, in pending_events or
\* as the event the pass under way has queued in to_process
C38_NoDeletionLost ==
  (/\ syn.fsq = <<>>
   /\ syn.wpc = "idle"
   /\ syn.recorded.event_type = "delete"
   /\ DeleteRequestsFor(syn.recorded.n) = {})
  => \/ syn.pending_events = syn.recorded
     \/ syn.to_process # <<>> /\ syn.to_process[1] = syn.recorded

\* C39: the cached hash of the path is that of the content of the last
\* upload answered 200, it is absent once _delete_file has run for the
\* path since that upload, whatever the answer to the delete, and a skip
\* as unchanged happens only for the content of the last upload answered
\* 200 with no deletion processed since
C39_HashOnlyFromLastOkUpload ==
  /\ syn.file_hashes # None
       => syn.last_ok # None /\ syn.file_hashes = compute_hash(syn.last_ok)
  /\ syn.deleted_since => syn.file_hashes = None
  /\ syn.skipped.n > 0
       => syn.skipped.content = syn.skipped.last_ok /\ ~syn.skipped.deleted_since

\* the type of request an event of this type leads to
RequestType(event_type) == IF event_type = "delete" THEN "delete" ELSE "upload"

\* C40: every request is issued at least debounce_seconds after the most
\* recent event recorded for the path, has the type of that event, and no
\* two requests are issued with the same event as the most recent one
C40_DebouncedLastEventWins ==
  /\ \A i \in 1..Len(syn.log) :
       /\ syn.log[i].at - syn.log[i].recorded.timestamp >= debounce_seconds
       /\ syn.log[i].type = RequestType(syn.log[i].recorded.event_type)
  /\ \A i, k \in 1..Len(syn.log) :
       i < k => syn.log[i].recorded.n # syn.log[k].recorded.n

====
